---- MODULE Spec2Model ----
(***************************************************************************)
(* Model of the jimbo core: card model (core/card.rs), hand evaluator      *)
(* (core/hand.rs), score engine (core/scoring.rs), jokers (core/joker.rs)  *)
(* and solver (core/solver.rs).                                            *)
(*                                                                         *)
(* The core is a library of pure functions.  Each one is an operator here, *)
(* computed the way the code computes it, and each specification draws the *)
(* inputs of one entry point from a bounded set and applies it.            *)
(*                                                                         *)
(* Options (Option<T>) are sequences: <<>> is None and <<x>> is Some(x).   *)
(* Vec<T> is a sequence, HashMap<K, V> a function on the set of its keys.  *)
(* All u32/i32/u64 quantities stay far below 2^31 within the bounds, so    *)
(* no addition of the model reaches the width of its type.                 *)
(***************************************************************************)
EXTENDS Integers, Sequences, FiniteSets, TLC

VARIABLES
    cards,          \* the card list handed to evaluate / calculate / solve
    jokers,         \* ScoreCalculator.jokers
    pc,             \* "input", then the entry point that has run
    hand_type,      \* Option<HandType>: what Hand::evaluate returned
    score_result,   \* Option<ScoreResult>: what calculate returned
    results,        \* solve's local `results` as pushed, before the sort
    solver_result,  \* Option<SolverResult>: what solve returned
    joker_loop,     \* calculate_joker_bonuses' locals while its loop is followed
                    \* joker by joker (then `jokers` is what it has yet to visit)
    config,         \* Option<SimulationConfig>: the argument of simulate
    rng,            \* Option<ChaCha8Rng>: simulate's local `rng`
    scores,         \* simulate's local `scores`
    run,            \* how many turns of simulate's loop are over
    hands,          \* the hand drawn in each turn of the loop
    sim_results,    \* what the calls of simulate returned, in order
    card_str,       \* parse_card's argument, as its chars
    parsed,         \* Option: how the call of parse_card ended
    report,         \* Option: the differences display_detailed printed last
    should_quit,    \* App.should_quit
    input,          \* App.input, as its chars
    selected_tab,   \* App.selected_tab
    event,          \* Option<KeyEvent>: the event handle_event handled last
    should_continue \* Option<bool>: what handle_event returned last

simVars == <<config, rng, scores, run, hands, sim_results>>

cliVars == <<card_str, parsed, report>>

appVars == <<should_quit, input, selected_tab, event, should_continue>>

vars == <<cards, jokers, pc, hand_type, score_result, results, solver_result,
          joker_loop, config, rng, scores, run, hands, sim_results,
         card_str, parsed, report, should_quit, input, selected_tab, event,
         should_continue>>

-----------------------------------------------------------------------------
(* Bounds *)

MaxEvalCards == 5      \* longest hand over PlainCards
MaxLongCards == 6      \* longest hand over LongCards
MaxScoreCards == 2     \* longest hand of modified cards handed to calculate
MaxJokers == 2         \* longest joker list
MaxStack == 18         \* most copies of one joker in a list
MaxLoopJokers == 3     \* most jokers the followed loop has yet to visit
MaxModCards == 4       \* longest hand built freely from the cards to modify
MaxHandSize == 2       \* largest hand_size of a simulation
MaxRuns == 6           \* largest num_runs of a simulation
MaxCalls == 2          \* most calls of simulate with one configuration
RngStates == 4         \* how many states the generator has
MaxSolveCards == 6     \* longest card list handed to solve

-----------------------------------------------------------------------------
(* core/card.rs *)

Rank == {"Two", "Three", "Four", "Five", "Six", "Seven", "Eight", "Nine",
         "Ten", "Jack", "Queen", "King", "Ace"}

Suit == {"Hearts", "Diamonds", "Clubs", "Spades"}

Enhancement == {"None", "Bonus", "Mult", "Wild", "Glass", "Steel", "Stone",
                "Gold", "Lucky"}

Edition == {"None", "Foil", "Holographic", "Polychrome", "Negative"}

Seal == {"Gold", "Red", "Blue", "Purple"}

\* iter().map(..).collect(): the mapped elements as a Vec.
collect(f) == f \o <<>>

\* Card::new
Card_new(rank, suit) ==
    [rank |-> rank, suit |-> suit, enhancement |-> "None",
     edition |-> "None", seal |-> <<>>]

with_enhancement(card, enhancement) == [card EXCEPT !.enhancement = enhancement]

with_edition(card, edition) == [card EXCEPT !.edition = edition]

with_seal(card, seal) == [card EXCEPT !.seal = <<seal>>]

\* Rank::value
Rank_value(rank) ==
    CASE rank = "Two" -> 2
      [] rank = "Three" -> 3
      [] rank = "Four" -> 4
      [] rank = "Five" -> 5
      [] rank = "Six" -> 6
      [] rank = "Seven" -> 7
      [] rank = "Eight" -> 8
      [] rank = "Nine" -> 9
      [] rank = "Ten" -> 10
      [] rank = "Jack" -> 11
      [] rank = "Queen" -> 12
      [] rank = "King" -> 13
      [] rank = "Ace" -> 14

\* A variant that takes the chips from Rank::value (Jack 11 ... Ace 14).
Card_base_chips_by_value(card) == Rank_value(card.rank)

\* Card::base_chips
Card_base_chips(card) ==
    CASE card.rank = "Two" -> 2
      [] card.rank = "Three" -> 3
      [] card.rank = "Four" -> 4
      [] card.rank = "Five" -> 5
      [] card.rank = "Six" -> 6
      [] card.rank = "Seven" -> 7
      [] card.rank = "Eight" -> 8
      [] card.rank = "Nine" -> 9
      [] card.rank \in {"Ten", "Jack", "Queen", "King"} -> 10
      [] card.rank = "Ace" -> 11

-----------------------------------------------------------------------------
(* core/hand.rs *)

HandType == {"HighCard", "Pair", "TwoPair", "ThreeOfAKind", "Straight",
             "Flush", "FullHouse", "FourOfAKind", "StraightFlush",
             "FiveOfAKind", "FlushHouse", "FlushFive"}

\* The order of the derived Ord: the place in the declaration.
HandType_ord(t) ==
    CHOOSE i \in 1..12 :
        <<"HighCard", "Pair", "TwoPair", "ThreeOfAKind", "Straight", "Flush",
          "FullHouse", "FourOfAKind", "StraightFlush", "FiveOfAKind",
          "FlushHouse", "FlushFive">>[i] = t

\* HandType::base_chips
HandType_base_chips(t) ==
    CASE t = "HighCard" -> 5
      [] t = "Pair" -> 10
      [] t = "TwoPair" -> 20
      [] t = "ThreeOfAKind" -> 30
      [] t = "Straight" -> 30
      [] t = "Flush" -> 35
      [] t = "FullHouse" -> 40
      [] t = "FourOfAKind" -> 60
      [] t = "StraightFlush" -> 100
      [] t = "FiveOfAKind" -> 120
      [] t = "FlushHouse" -> 140
      [] t = "FlushFive" -> 160

\* HandType::base_mult
HandType_base_mult(t) ==
    CASE t = "HighCard" -> 1
      [] t = "Pair" -> 2
      [] t = "TwoPair" -> 2
      [] t = "ThreeOfAKind" -> 3
      [] t = "Straight" -> 4
      [] t = "Flush" -> 4
      [] t = "FullHouse" -> 4
      [] t = "FourOfAKind" -> 7
      [] t = "StraightFlush" -> 8
      [] t = "FiveOfAKind" -> 12
      [] t = "FlushHouse" -> 14
      [] t = "FlushFive" -> 16

\* A variant without the five-card requirement.
is_flush_any_length(cs) ==
    LET first_suit == cs[1].suit
    IN  \A i \in 1..Len(cs) : cs[i].suit = first_suit

\* Hand::is_flush: the first card's suit decides.
is_flush(cs) ==
    IF Len(cs) < 5 THEN FALSE
    ELSE LET first_suit == cs[1].suit
         IN  \A i \in 1..Len(cs) : cs[i].suit = first_suit

\* values.sort_unstable() on u8: equal values are indistinguishable, so the
\* result is the ascending arrangement; computed by insertion.
RECURSIVE sort_insert(_, _)
sort_insert(v, s) ==
    IF s = <<>> THEN <<v>>
    ELSE IF v <= Head(s) THEN <<v>> \o s
    ELSE <<Head(s)>> \o sort_insert(v, Tail(s))

RECURSIVE sort_unstable(_)
sort_unstable(s) ==
    IF s = <<>> THEN <<>> ELSE sort_insert(Head(s), sort_unstable(Tail(s)))

\* A variant that keeps repeated values.
dedup_keeps_repeats(s) == s

\* values.dedup(): drops every element equal to the one before it.
RECURSIVE dedup(_)
dedup(s) ==
    IF Len(s) <= 1 THEN s
    ELSE IF s[1] = s[2] THEN dedup(Tail(s))
    ELSE <<s[1]>> \o dedup(Tail(s))

contains(s, v) == \E i \in 1..Len(s) : s[i] = v

\* A variant that omits values.sort_unstable().
straight_values_unsorted(cs) ==
    dedup(collect([i \in 1..Len(cs) |-> Rank_value(cs[i].rank)]))

\* The local `values` of is_straight after sort_unstable and dedup.
straight_values(cs) ==
    dedup(sort_unstable(collect([i \in 1..Len(cs) |-> Rank_value(cs[i].rank)])))

\* A variant that omits the ace-low check.
has_run_no_ace_low(values) ==
    IF Len(values) < 5 THEN FALSE
    ELSE \E w \in 1..(Len(values) - 4) : values[w + 4] - values[w] = 4

\* The checks of is_straight on `values`: a window of five consecutive
\* values, or the ace-low run.
has_run(values) ==
    IF Len(values) < 5 THEN FALSE
    ELSE IF \E w \in 1..(Len(values) - 4) : values[w + 4] - values[w] = 4 THEN TRUE
    ELSE contains(values, 14) /\ contains(values, 2) /\ contains(values, 3)
         /\ contains(values, 4) /\ contains(values, 5)

\* Hand::is_straight
is_straight(cs) == IF Len(cs) < 5 THEN FALSE ELSE has_run(straight_values(cs))

\* A variant in which a Stone card has no rank.
RECURSIVE rank_counts_loop_skip_stone(_, _)
rank_counts_loop_skip_stone(cs, counts) ==
    IF cs = <<>> THEN counts
    ELSE LET r == Head(cs).rank
         IN  rank_counts_loop_skip_stone(Tail(cs),
                 IF Head(cs).enhancement = "Stone" THEN counts
                 ELSE IF r \in DOMAIN counts
                 THEN [counts EXCEPT ![r] = @ + 1]
                 ELSE counts @@ (r :> 1))

\* Hand::rank_counts: *counts.entry(card.rank).or_insert(0) += 1 per card.
RECURSIVE rank_counts_loop(_, _)
rank_counts_loop(cs, counts) ==
    IF cs = <<>> THEN counts
    ELSE LET r == Head(cs).rank
         IN  rank_counts_loop(Tail(cs),
                 IF r \in DOMAIN counts
                 THEN [counts EXCEPT ![r] = @ + 1]
                 ELSE counts @@ (r :> 1))

rank_counts(cs) == rank_counts_loop(cs, <<>>)

\* rank_counts.values().max().copied().unwrap_or(0)
max_count_of(counts) ==
    IF DOMAIN counts = {} THEN 0
    ELSE CHOOSE m \in {counts[r] : r \in DOMAIN counts} :
             \A r \in DOMAIN counts : counts[r] <= m

\* Hand::is_full_house
is_full_house(counts) ==
    LET has_three == \E r \in DOMAIN counts : counts[r] = 3
        has_pair == \E r \in DOMAIN counts : counts[r] = 2
    IN  has_three /\ has_pair

\* Hand::check_special_hands: Option<HandType>
check_special_hands(counts, flush, straight) ==
    LET max_count == max_count_of(counts)
    IN  IF max_count >= 5 /\ flush THEN <<"FlushFive">>
        ELSE IF flush /\ is_full_house(counts) THEN <<"FlushHouse">>
        ELSE IF max_count >= 5 THEN <<"FiveOfAKind">>
        ELSE <<>>

\* A variant that tests Flush before FourOfAKind.
check_standard_hands_flush_first(counts, flush, straight) ==
    LET max_count == max_count_of(counts)
        pair_count == Cardinality({r \in DOMAIN counts : counts[r] = 2})
    IN  IF straight /\ flush THEN "StraightFlush"
        ELSE IF flush THEN "Flush"
        ELSE IF max_count = 4 THEN "FourOfAKind"
        ELSE IF is_full_house(counts) THEN "FullHouse"
        ELSE IF straight THEN "Straight"
        ELSE IF max_count = 3 THEN "ThreeOfAKind"
        ELSE IF pair_count >= 2 THEN "TwoPair"
        ELSE IF max_count = 2 THEN "Pair"
        ELSE "HighCard"

\* Hand::check_standard_hands
check_standard_hands(counts, flush, straight) ==
    LET max_count == max_count_of(counts)
        pair_count == Cardinality({r \in DOMAIN counts : counts[r] = 2})
    IN  IF straight /\ flush THEN "StraightFlush"
        ELSE IF max_count = 4 THEN "FourOfAKind"
        ELSE IF is_full_house(counts) THEN "FullHouse"
        ELSE IF flush THEN "Flush"
        ELSE IF straight THEN "Straight"
        ELSE IF max_count = 3 THEN "ThreeOfAKind"
        ELSE IF pair_count >= 2 THEN "TwoPair"
        ELSE IF max_count = 2 THEN "Pair"
        ELSE "HighCard"

\* The two tiers of evaluate: the special hands first, then the standard ones.
classify(counts, flush, straight) ==
    LET special == check_special_hands(counts, flush, straight)
    IN  IF special # <<>> THEN special[1]
        ELSE check_standard_hands(counts, flush, straight)

\* Hand::evaluate
evaluate(cs) ==
    IF cs = <<>> THEN "HighCard"
    ELSE classify(rank_counts(cs), is_flush(cs), is_straight(cs))

-----------------------------------------------------------------------------
(* core/joker.rs *)

JokerKind == {"Joker", "GreedyJoker", "LustyJoker", "WrathfulJoker",
              "GluttonousJoker", "JollyJoker", "ZanyJoker", "MadJoker",
              "CrazyJoker", "DrollJoker", "Baron"}

JokerEdition == {"None", "Foil", "Holographic", "Polychrome", "Negative"}

JokerRarity == {"Common", "Uncommon", "Rare", "Legendary"}

\* Joker::new
Joker_new(kind) == [kind |-> kind, edition |-> "None", rarity |-> "Common"]

Joker_with_edition(joker, edition) == [joker EXCEPT !.edition = edition]

Joker_with_rarity(joker, rarity) == [joker EXCEPT !.rarity = rarity]

\* JokerKind::base_chips
JokerKind_base_chips(kind) == 0

\* A variant in which a Jolly Joker adds mult.
JokerKind_base_mult_jolly(kind) ==
    IF kind = "Joker" THEN 4 ELSE IF kind = "JollyJoker" THEN 8 ELSE 0

\* JokerKind::base_mult
JokerKind_base_mult(kind) == IF kind = "Joker" THEN 4 ELSE 0

-----------------------------------------------------------------------------
(* core/scoring.rs *)

\* A variant in which a Stone card has no rank chips.
card_bonus_step_stone_no_rank(acc, card) ==
    LET c0 == IF card.enhancement = "Stone" THEN acc.chips
              ELSE acc.chips + Card_base_chips(card)
        c1 == CASE card.enhancement = "Bonus" -> c0 + 30
                [] card.enhancement = "Stone" -> c0 + 50
                [] OTHER -> c0
        m1 == IF card.enhancement = "Mult" THEN acc.mult + 4 ELSE acc.mult
        c2 == IF card.edition = "Foil" THEN c1 + 50 ELSE c1
        m2 == IF card.edition = "Holographic" THEN m1 + 10 ELSE m1
    IN  [chips |-> c2, mult |-> m2]

\* The per-card step of calculate_card_bonuses: acc is (chips, mult).
card_bonus_step(acc, card) ==
    LET c0 == acc.chips + Card_base_chips(card)
        c1 == CASE card.enhancement = "Bonus" -> c0 + 30
                [] card.enhancement = "Stone" -> c0 + 50
                [] OTHER -> c0
        m1 == IF card.enhancement = "Mult" THEN acc.mult + 4 ELSE acc.mult
        c2 == IF card.edition = "Foil" THEN c1 + 50 ELSE c1
        m2 == IF card.edition = "Holographic" THEN m1 + 10 ELSE m1
    IN  [chips |-> c2, mult |-> m2]

RECURSIVE card_bonuses_loop(_, _)
card_bonuses_loop(cs, acc) ==
    IF cs = <<>> THEN acc
    ELSE card_bonuses_loop(Tail(cs), card_bonus_step(acc, Head(cs)))

\* A variant that counts the first card only.
calculate_card_bonuses_first_card(cs) ==
    IF cs = <<>> THEN [chips |-> 0, mult |-> 0]
    ELSE card_bonus_step([chips |-> 0, mult |-> 0], Head(cs))

\* ScoreCalculator::calculate_card_bonuses
calculate_card_bonuses(cs) == card_bonuses_loop(cs, [chips |-> 0, mult |-> 0])

\* f32: a value is m * 2^e with the 24-bit significand m in 2^23..2^24-1
\* (m = 0 for zero).  Results are rounded to nearest, ties to even.
\* Exponents stay far inside the range of f32 within the bounds.
RECURSIVE Pow2(_)
Pow2(k) == IF k = 0 THEN 1 ELSE 2 * Pow2(k - 1)

RECURSIVE BitLen(_)
BitLen(n) == IF n = 0 THEN 0 ELSE 1 + BitLen(n \div 2)

\* The f32 nearest to (hi * 2^24 + lo) * 2^e, for hi > 0 and lo < 2^24.
f32_round_wide(hi, lo, e) ==
    LET len == BitLen(hi)
        q == hi * Pow2(24 - len) + lo \div Pow2(len)
        r == lo % Pow2(len)
        half == Pow2(len - 1)
        up == r > half \/ (r = half /\ q % 2 = 1)
    IN  IF up /\ q + 1 = 16777216
        THEN [m |-> 8388608, e |-> e + len + 1]
        ELSE [m |-> IF up THEN q + 1 ELSE q, e |-> e + len]

\* The f32 nearest to n * 2^e.
f32_round(n, e) ==
    IF n = 0 THEN [m |-> 0, e |-> 0]
    ELSE IF n < 16777216
    THEN [m |-> n * Pow2(24 - BitLen(n)), e |-> e - (24 - BitLen(n))]
    ELSE f32_round_wide(n \div 16777216, n % 16777216, e)

\* `x as f32` for an integer x
f32_from_u32(x) == f32_round(x, 0)

\* x * y in f32: the 48-bit product of the significands, from their 12-bit
\* halves, rounded.
f32_mul(x, y) ==
    LET a == (x.m \div 4096) * (y.m \div 4096)
        b == (x.m \div 4096) * (y.m % 4096) + (x.m % 4096) * (y.m \div 4096)
        c == (x.m % 4096) * (y.m % 4096)
        low == (b % 4096) * 4096 + c
    IN  IF x.m = 0 \/ y.m = 0 THEN [m |-> 0, e |-> 0]
        ELSE f32_round_wide(a + b \div 4096 + low \div 16777216,
                            low % 16777216, x.e + y.e)

\* `x as u32` for an f32 x >= 0: the fraction is dropped.
f32_to_u32(x) ==
    IF x.e >= 0 THEN x.m * Pow2(x.e)
    ELSE IF 0 - x.e >= 24 THEN 0
    ELSE x.m \div Pow2(0 - x.e)

\* 1.0f32
f32_one == [m |-> 8388608, e |-> 0 - 23]

\* mult_multiplier *= 1.5
f32_times_1_5(x) == f32_mul(x, [m |-> 12582912, e |-> 0 - 23])

\* The per-joker step of calculate_joker_bonuses.
joker_bonus_step(acc, joker) ==
    LET c0 == acc.chips + JokerKind_base_chips(joker.kind)
        m0 == acc.mult + JokerKind_base_mult(joker.kind)
    IN  [chips |-> IF joker.edition = "Foil" THEN c0 + 50 ELSE c0,
         mult |-> IF joker.edition = "Holographic" THEN m0 + 10 ELSE m0,
         mult_multiplier |-> IF joker.edition = "Polychrome"
                             THEN f32_times_1_5(acc.mult_multiplier)
                             ELSE acc.mult_multiplier]

RECURSIVE joker_bonuses_loop(_, _)
joker_bonuses_loop(js, acc) ==
    IF js = <<>> THEN acc
    ELSE joker_bonuses_loop(Tail(js), joker_bonus_step(acc, Head(js)))

\* ScoreCalculator::calculate_joker_bonuses (the hand and its type are unused)
calculate_joker_bonuses(js) ==
    joker_bonuses_loop(js, [chips |-> 0, mult |-> 0, mult_multiplier |-> f32_one])

\* i32::MAX
I32Max == 2147483647

\* a + b on i32 for a, b >= 0: whether it overflows, and the wrapped sum.
i32_add(a, b) ==
    IF a > I32Max - b
    THEN [overflow |-> TRUE, value |-> ((a - I32Max) - 1) + ((b - I32Max) - 1)]
    ELSE [overflow |-> FALSE, value |-> a + b]

\* The per-joker step of calculate_joker_bonuses on i32 accumulators; an
\* overflowing += panics in a build with overflow checks and wraps in one
\* without.
joker_bonus_step_i32(acc, joker) ==
    LET c0 == i32_add(acc.chips, JokerKind_base_chips(joker.kind))
        m0 == i32_add(acc.mult, JokerKind_base_mult(joker.kind))
        c1 == IF joker.edition = "Foil" /\ ~c0.overflow
              THEN i32_add(c0.value, 50) ELSE c0
        m1 == IF joker.edition = "Holographic" /\ ~m0.overflow
              THEN i32_add(m0.value, 10) ELSE m0
    IN  [chips |-> c1.value,
         mult |-> m1.value,
         mult_multiplier |-> IF joker.edition = "Polychrome"
                             THEN f32_times_1_5(acc.mult_multiplier)
                             ELSE acc.mult_multiplier,
         overflow_checks |-> acc.overflow_checks,
         panicked |-> acc.overflow_checks /\ (c1.overflow \/ m1.overflow),
         total_chips |-> acc.total_chips]

\* u32::saturating_add_signed, for sums below the top of u32
saturating_add_signed(a, b) == IF a + b < 0 THEN 0 ELSE a + b

\* (total_mult as f32 * joker_mult_multiplier) as u32
apply_mult_multiplier(total_mult, m) ==
    f32_to_u32(f32_mul(f32_from_u32(total_mult), m))

\* A variant that reports the mult from before the multiplier.
score_result_reports_total_mult(ht, cb, jb) ==
    LET base_chips == HandType_base_chips(ht)
        base_mult == HandType_base_mult(ht)
        total_chips == saturating_add_signed(base_chips + cb.chips, jb.chips)
        total_mult == saturating_add_signed(base_mult + cb.mult, jb.mult)
        final_mult == apply_mult_multiplier(total_mult, jb.mult_multiplier)
    IN  [hand_type |-> ht,
         chips |-> total_chips,
         mult |-> total_mult,
         score |-> total_chips * final_mult,
         breakdown |-> [base_chips |-> base_chips,
                        base_mult |-> base_mult,
                        card_chips |-> cb.chips,
                        card_mult |-> cb.mult,
                        joker_chips |-> jb.chips,
                        joker_mult |-> jb.mult,
                        joker_mult_multiplier |-> jb.mult_multiplier]]

\* calculate from the hand type, the card bonuses and the joker bonuses on:
\* the totals, the multiplier, the product and the ScoreResult.
score_result_of(ht, cb, jb) ==
    LET base_chips == HandType_base_chips(ht)
        base_mult == HandType_base_mult(ht)
        total_chips == saturating_add_signed(base_chips + cb.chips, jb.chips)
        total_mult == saturating_add_signed(base_mult + cb.mult, jb.mult)
        final_mult == apply_mult_multiplier(total_mult, jb.mult_multiplier)
    IN  [hand_type |-> ht,
         chips |-> total_chips,
         mult |-> final_mult,
         score |-> total_chips * final_mult,
         breakdown |-> [base_chips |-> base_chips,
                        base_mult |-> base_mult,
                        card_chips |-> cb.chips,
                        card_mult |-> cb.mult,
                        joker_chips |-> jb.chips,
                        joker_mult |-> jb.mult,
                        joker_mult_multiplier |-> jb.mult_multiplier]]

\* ScoreCalculator::calculate
calculate(cs, js) ==
    score_result_of(evaluate(cs), calculate_card_bonuses(cs),
                    calculate_joker_bonuses(js))

-----------------------------------------------------------------------------
(* core/solver.rs *)

\* An element of `current` is the card pushed by current.push(cards[i].clone());
\* the model keeps beside it the source index i it was cloned from.  Indices
\* count from 1 here and from 0 in the code.
picked(cs, i) == [index |-> i, card |-> cs[i]]

RECURSIVE generate_combinations_recursive(_, _, _, _)
RECURSIVE generate_combinations_for(_, _, _, _)

\* The loop `for i in start..cards.len()` of generate_combinations_recursive,
\* from index i on: what it pushes to `results`, in order.
generate_combinations_for(cs, size, i, current) ==
    IF i > Len(cs) THEN <<>>
    ELSE generate_combinations_recursive(cs, size, i + 1, Append(current, picked(cs, i)))
         \o generate_combinations_for(cs, size, i + 1, current)

\* Solver::generate_combinations_recursive: what the call pushes to
\* `results`, in order.
generate_combinations_recursive(cs, size, start, current) ==
    IF Len(current) = size THEN <<current>>
    ELSE generate_combinations_for(cs, size, start, current)

\* generate_combinations with the recursion started at the second card.
generate_combinations_from_second(cs, size) ==
    generate_combinations_recursive(cs, size, 2, <<>>)

\* Solver::generate_combinations: `results` starts empty.
generate_combinations(cs, size) ==
    generate_combinations_recursive(cs, size, 1, <<>>)

min(a, b) == IF a <= b THEN a ELSE b

\* A variant that scores the combination without the jokers.
scored_without_jokers(combo, js) ==
    [combo |-> collect([j \in 1..Len(combo) |-> combo[j].index]),
     hand |-> collect([j \in 1..Len(combo) |-> combo[j].card]),
     score |-> calculate(collect([j \in 1..Len(combo) |-> combo[j].card]), <<>>)]

\* The body of `for combo in combinations`: one (Hand, ScoreResult) pair,
\* with the source indices of the combination kept beside it.
scored(combo, js) ==
    [combo |-> collect([j \in 1..Len(combo) |-> combo[j].index]),
     hand |-> collect([j \in 1..Len(combo) |-> combo[j].card]),
     score |-> calculate(collect([j \in 1..Len(combo) |-> combo[j].card]), js)]

\* `for combo in combinations { ... results.push((hand, score)) }`
score_all(combinations, js) ==
    collect([c \in 1..Len(combinations) |-> scored(combinations[c], js)])

\* The loop `for hand_size in 1..=5.min(cards.len())` of solve, from
\* hand_size on: `results` after it.
RECURSIVE solve_for(_, _, _, _)
solve_for(cs, js, hand_size, res) ==
    IF hand_size > min(5, Len(cs)) THEN res
    ELSE solve_for(cs, js, hand_size + 1,
                   res \o score_all(generate_combinations(cs, hand_size), js))

\* The closure with the comparison turned round: a.1.score.cmp(&b.1.score).
compare_ascending(a, b) ==
    IF a.score.score < b.score.score THEN "Less"
    ELSE IF a.score.score = b.score.score THEN "Equal"
    ELSE "Greater"

\* The closure of results.sort_by: |a, b| b.1.score.cmp(&a.1.score).
compare(a, b) ==
    IF b.score.score < a.score.score THEN "Less"
    ELSE IF b.score.score = a.score.score THEN "Equal"
    ELSE "Greater"

\* left_places that lets an element of the right run also pass the elements
\* of the left run it is Equal to.
left_places_after_ties(left, right) ==
    collect([i \in 1..Len(left) |->
        i + Cardinality({j \in 1..Len(right) : compare(right[j], left[i]) # "Greater"})])

\* The merge of two sorted runs, `left` the earlier one.  Where each element
\* of the left run goes: behind the elements of the right run that compare
\* Less than it, so that elements comparing Equal keep their order
\* (slice::sort_by is stable).
left_places(left, right) ==
    collect([i \in 1..Len(left) |->
        i + Cardinality({j \in 1..Len(right) : compare(right[j], left[i]) = "Less"})])

\* The merged run: the left elements at their places, the right elements in
\* order in the places left over.
merge_at(left, right, places) ==
    collect([p \in 1..(Len(left) + Len(right)) |->
        IF \E i \in 1..Len(left) : places[i] = p
        THEN left[CHOOSE i \in 1..Len(left) : places[i] = p]
        ELSE right[p - Cardinality({i \in 1..Len(left) : places[i] < p})]])

merge(left, right) == merge_at(left, right, left_places(left, right))

\* results.sort_by(...): a stable merge sort.
RECURSIVE sort_by(_)
sort_by(s) ==
    IF Len(s) <= 1 THEN s
    ELSE merge(sort_by(SubSeq(s, 1, Len(s) \div 2)),
               sort_by(SubSeq(s, Len(s) \div 2 + 1, Len(s))))

\* A variant that takes without skipping.
take_without_skip(s, n, k) == SubSeq(s, 1, min(Len(s), k))

\* results.into_iter().skip(1).take(3).collect()
skip_take(s, n, k) == SubSeq(s, n + 1, min(Len(s), n + k))

\* "Extract best and alternatives": `sorted` is `results` after the sort,
\* `pushed` is `results` before it.  pushed and best_combo (the source
\* indices of best_hand) are not fields of SolverResult.
solver_result_of(sorted, pushed) ==
    [best_hand |-> IF sorted = <<>> THEN <<>> ELSE sorted[1].hand,
     best_score |-> IF sorted = <<>> THEN <<>> ELSE <<sorted[1].score>>,
     alternatives |-> skip_take(sorted, 1, 3),
     best_combo |-> IF sorted = <<>> THEN <<>> ELSE sorted[1].combo,
     pushed |-> pushed]

sort_and_extract(pushed) == solver_result_of(sort_by(pushed), pushed)

\* solve without its empty case and with the loop over hand sizes started
\* at 0.
solve_from_size_zero(cs, js) == sort_and_extract(solve_for(cs, js, 0, <<>>))

\* Solver::solve
solve(cs, js) ==
    IF cs = <<>>
    THEN [best_hand |-> <<>>, best_score |-> <<>>, alternatives |-> <<>>,
          best_combo |-> <<>>, pushed |-> <<>>]
    ELSE sort_and_extract(solve_for(cs, js, 1, <<>>))

-----------------------------------------------------------------------------
(* core/simulator.rs *)

\* ChaCha8Rng::seed_from_u64: the generator's state is a function of the seed.
seed_from_u64(s) == s % RngStates

\* A variant that seeds from entropy whatever the seed.
create_rng_from_entropy(seed) == 0..(RngStates - 1)

\* Simulator::create_rng: the states the new generator can be in.
create_rng(seed) ==
    IF seed # <<>> THEN {seed_from_u64(seed[1])} ELSE 0..(RngStates - 1)

\* One draw below ubound: the value drawn and the generator afterwards, both
\* functions of the generator before.
gen_index(g, ubound) ==
    [value |-> ((g * (g + 1)) \div 2) % ubound, rng |-> (g + 1) % RngStates]

\* A variant that overwrites one place instead of exchanging two.
swap_overwrites(s, i, j) == [s EXCEPT ![i] = s[j]]

swap(s, i, j) == [s EXCEPT ![i] = s[j], ![j] = s[i]]

\* SliceRandom::shuffle: for i in (1..len).rev() { swap(i, gen_index(rng, i + 1)) }
RECURSIVE shuffle_loop(_, _, _)
shuffle_loop(deck, g, i) ==
    IF i < 1 THEN [deck |-> deck, rng |-> g]
    ELSE LET d == gen_index(g, i + 1)
         IN  shuffle_loop(swap(deck, i + 1, d.value + 1), d.rng, i - 1)

shuffle(deck, g) == shuffle_loop(deck, g, Len(deck) - 1)

\* Simulator::draw_random_hand: the hand, and the generator afterwards.
draw_random_hand(deck, hand_size, g) ==
    LET sh == shuffle(deck, g)
    IN  [hand |-> SubSeq(sh.deck, 1, min(hand_size, Len(deck))), rng |-> sh.rng]

\* A variant that records the chips of the best score.
recorded_score_chips(result) ==
    IF result.best_score # <<>> THEN result.best_score[1].chips ELSE 0

\* if let Some(score_result) = result.best_score { score } else { 0 }
recorded_score(result) ==
    IF result.best_score # <<>> THEN result.best_score[1].score ELSE 0

\* A variant that takes one more turn.
loop_continues_inclusive(i, num_runs) == i <= num_runs

\* for _ in 0..config.num_runs: whether a turn follows i finished turns
loop_continues(i, num_runs) == i < num_runs

\* A variant that scales the length instead of the last index.
percentile_index_of_len(len, num, den) == (len * num) \div den

\* ((len as f64 - 1.0) * p) as usize for p = num / den: the f64 product,
\* truncated, is the integer quotient for every length below 2,000,000 and
\* p in {0.25, 0.5, 0.75, 0.95, 0.0, 1.0}.
percentile_index(len, num, den) == ((len - 1) * num) \div den

\* Simulator::percentile, p = num / den
percentile(sorted_scores, num, den) ==
    IF sorted_scores = <<>> THEN 0
    ELSE sorted_scores[percentile_index(Len(sorted_scores), num, den) + 1]

\* A variant that leaves the scores as they were pushed.
scores_left_unsorted(s) == s

\* scores.sort_unstable() on u64: equal scores are indistinguishable, so the
\* result is the ascending arrangement; place i holds the score with fewer
\* than i scores below it and at least i scores not above it.
scores_sort_unstable(s) ==
    IF s = <<>> THEN <<>>
    ELSE collect([i \in 1..Len(s) |->
             CHOOSE x \in {s[j] : j \in 1..Len(s)} :
                 /\ Cardinality({j \in 1..Len(s) : s[j] < x}) < i
                 /\ i <= Cardinality({j \in 1..Len(s) : s[j] <= x})])

RECURSIVE sum(_)
sum(s) == IF s = <<>> THEN 0 ELSE Head(s) + sum(Tail(s))

\* total as f64 / num_runs as f64: the quotient as a fraction; 0.0 / 0.0 is
\* NaN and x / 0.0 is infinite.
f64_div(total, num_runs) ==
    IF num_runs # 0 THEN [num |-> total, den |-> num_runs]
    ELSE IF total = 0 THEN [num |-> "NaN", den |-> 0]
    ELSE [num |-> "inf", den |-> 0]

\* Simulator::calculate_statistics
calculate_statistics(scs, num_runs) ==
    LET sorted == scores_sort_unstable(scs)
    IN  [num_runs |-> num_runs,
         mean_score |-> f64_div(sum(sorted), num_runs),
         median_score |-> percentile(sorted, 1, 2),
         min_score |-> IF sorted = <<>> THEN 0 ELSE sorted[1],
         max_score |-> IF sorted = <<>> THEN 0 ELSE sorted[Len(sorted)],
         percentile_25 |-> percentile(sorted, 1, 4),
         percentile_75 |-> percentile(sorted, 3, 4),
         percentile_95 |-> percentile(sorted, 19, 20)]

\* a - b on u64: below zero the subtraction overflows (a panic with overflow
\* checks, else the value wrapped, which is 2^64 more than `value`).
u64_sub(a, b) == [overflow |-> a < b, value |-> a - b]

\* cli/simulate.rs, display_detailed: the two differences it prints.
display_detailed(result) ==
    [range |-> u64_sub(result.max_score, result.min_score),
     iqr |-> u64_sub(result.percentile_75, result.percentile_25)]

-----------------------------------------------------------------------------
(* Inputs *)

\* Unmodified cards for the evaluator: a run of five ranks, the ace, and one
\* card of a second suit.
PlainCards ==
    {Card_new(r, "Hearts") : r \in {"Two", "Three", "Four", "Five", "Six", "Ace"}}
    \cup {Card_new("Two", "Spades")}

\* The hands of the unit tests of hand.rs and scoring.rs.
TestHands ==
    { <<Card_new("Ace", "Hearts"), Card_new("Ace", "Spades")>>,
      <<Card_new("Ace", "Hearts"), Card_new("Ace", "Spades"), Card_new("King", "Hearts")>>,
      <<Card_new("Two", "Hearts"), Card_new("Five", "Hearts"), Card_new("Seven", "Hearts"),
        Card_new("Nine", "Hearts"), Card_new("King", "Hearts")>>,
      <<Card_new("King", "Hearts"), Card_new("Queen", "Hearts")>> }

\* Every card of the standard deck, alone.
SingleCards == {<<Card_new(r, s)>> : r \in Rank, s \in Suit}

\* Every reordering of a list.
PermsOf(h) ==
    {collect([i \in 1..Len(h) |-> h[p[i]]]) : p \in Permutations(1..Len(h))}

\* Cards for the hands of more than five cards: three ranks, one of them in
\* two suits.
LongCards ==
    {Card_new("Two", "Hearts"), Card_new("Two", "Spades"),
     Card_new("Three", "Hearts"), Card_new("Ace", "Hearts")}

\* Hands about runs: ten to ace; a run that would have to wrap around the
\* ace; six ranks whose highest five are a run and whose lowest five are
\* not; a run of five ranks with a sixth card repeating one of them.
RunHands ==
    {<<Card_new("Ten", "Hearts"), Card_new("Jack", "Spades"), Card_new("Queen", "Hearts"),
       Card_new("King", "Hearts"), Card_new("Ace", "Hearts")>>,
     <<Card_new("Queen", "Clubs"), Card_new("King", "Clubs"), Card_new("Ace", "Clubs"),
       Card_new("Two", "Clubs"), Card_new("Three", "Clubs")>>,
     <<Card_new("Two", "Hearts"), Card_new("Four", "Hearts"), Card_new("Five", "Hearts"),
       Card_new("Six", "Hearts"), Card_new("Seven", "Hearts"), Card_new("Eight", "Spades")>>,
     <<Card_new("Two", "Hearts"), Card_new("Three", "Hearts"), Card_new("Four", "Hearts"),
       Card_new("Five", "Hearts"), Card_new("Six", "Spades"), Card_new("Six", "Spades")>>}

\* Modified cards for the score engine: every enhancement with every edition
\* and every seal, on two ranks.
ModifiedCards ==
    {[rank |-> r, suit |-> "Hearts", enhancement |-> e, edition |-> d, seal |-> s] :
        r \in {"Five", "Ace"}, e \in Enhancement, d \in Edition,
        s \in {<<>>} \cup {<<x>> : x \in Seal}}

\* The cards scored beside a modified card.
CompanionCards ==
    {Card_new("Ace", "Spades"),
     with_edition(with_enhancement(Card_new("King", "Clubs"), "Mult"), "Holographic"),
     with_seal(with_edition(with_enhancement(Card_new("Five", "Hearts"), "Lucky"), "Negative"), "Gold")}

\* Cards for the solver: a low card and a high card of another suit.
SolveCards == {Card_new("Two", "Hearts"), Card_new("Ace", "Spades")}

\* Card lists for the solver written out in full: the two lists of the
\* tests of solver.rs, and eight cards, one of them enhanced, that hold
\* straights and flushes; and seven cards, six of them the same, whose best
\* hands tie.
SolveLists ==
    {<<Card_new("Ace", "Hearts"), Card_new("King", "Hearts"), Card_new("Queen", "Hearts")>>,
     <<Card_new("Ace", "Hearts"), Card_new("Ace", "Spades"), Card_new("King", "Hearts")>>,
     <<Card_new("King", "Hearts"), Card_new("Two", "Hearts"), Card_new("Three", "Spades"),
       Card_new("Four", "Hearts"), Card_new("Five", "Hearts"), Card_new("Six", "Hearts"),
       with_enhancement(Card_new("Ace", "Hearts"), "Bonus"), Card_new("Two", "Spades")>>,
     <<Card_new("Two", "Hearts"), Card_new("Ace", "Spades"), Card_new("Ace", "Spades"),
       Card_new("Ace", "Spades"), Card_new("Ace", "Spades"), Card_new("Ace", "Spades"),
       Card_new("Ace", "Spades")>>}

SolveJokerLists ==
    {<<>>, <<Joker_with_edition(Joker_new("Joker"), "Polychrome")>>}

ScoreJokers ==
    {Joker_with_edition(Joker_new(k), e) :
        k \in {"Joker", "Baron"}, e \in JokerEdition}

\* The jokers stacked in long lists of one joker.
StackJokers ==
    {Joker_with_edition(Joker_new(k), "Polychrome") : k \in {"Joker", "Baron"}}

\* The joker lists tried with every hand of modified cards.
FewJokerLists ==
    { <<>>,
      <<Joker_with_edition(Joker_new("Baron"), "Polychrome"),
        Joker_with_edition(Joker_new("Joker"), "Holographic")>> }

-----------------------------------------------------------------------------
(* Actions *)

\* hand.evaluate()
Evaluate ==
    /\ pc = "input"
    /\ hand_type' = <<evaluate(cards)>>
    /\ pc' = "evaluated"
    /\ UNCHANGED <<cards, jokers, score_result, results, solver_result, joker_loop>>
    /\ UNCHANGED simVars
    /\ UNCHANGED <<cliVars, appVars>>

\* ScoreCalculator::new(jokers).calculate(&hand)
Calculate ==
    /\ pc = "input"
    /\ score_result' = <<calculate(cards, jokers)>>
    /\ pc' = "calculated"
    /\ UNCHANGED <<cards, jokers, hand_type, results, solver_result, joker_loop>>
    /\ UNCHANGED simVars
    /\ UNCHANGED <<cliVars, appVars>>

(***************************************************************************)
(* cli/solve.rs: parsing a card token.  A &str is the sequence of its      *)
(* chars; lengths and slice bounds count UTF-8 bytes, as in the source.    *)
(***************************************************************************)

\* The longest token parsed.
MaxTokenChars == 4

\* char::len_utf8: the chars above U+007F that the tokens are made of are
\* U+00E2, U+00A5 (two bytes), U+2122 and U+2665 (three bytes).
len_utf8(c) ==
    CASE c \in {"a_circumflex", "A_circumflex", "yen"} -> 2
      [] c \in {"trade_mark", "heart"} -> 3
      [] OTHER -> 1

\* str::len, in bytes
RECURSIVE str_len(_)
str_len(s) == IF s = <<>> THEN 0 ELSE len_utf8(Head(s)) + str_len(Tail(s))

\* str::is_char_boundary
is_char_boundary(s, k) == \E n \in 0..Len(s) : str_len(SubSeq(s, 1, n)) = k

\* How many chars of s lie before the char boundary k.
chars_before(s, k) == CHOOSE n \in 0..Len(s) : str_len(SubSeq(s, 1, n)) = k

\* &s[..k] and &s[k..]: a slice bound inside a char panics.
slice_to(s, k) ==
    IF is_char_boundary(s, k)
    THEN [panic |-> FALSE, str |-> SubSeq(s, 1, chars_before(s, k))]
    ELSE [panic |-> TRUE, str |-> <<>>]

slice_from(s, k) ==
    IF is_char_boundary(s, k)
    THEN [panic |-> FALSE, str |-> SubSeq(s, chars_before(s, k) + 1, Len(s))]
    ELSE [panic |-> TRUE, str |-> <<>>]

\* str::starts_with
starts_with(s, prefix) ==
    Len(s) >= Len(prefix) /\ SubSeq(s, 1, Len(prefix)) = prefix

\* char::to_uppercase on the chars of the tokens
char_to_uppercase(c) ==
    LET lower == <<"a", "b", "c", "d", "e", "f", "g", "h", "i", "j", "k", "l", "m",
                   "n", "o", "p", "q", "r", "s", "t", "u", "v", "w", "x", "y", "z">>
        upper == <<"A", "B", "C", "D", "E", "F", "G", "H", "I", "J", "K", "L", "M",
                   "N", "O", "P", "Q", "R", "S", "T", "U", "V", "W", "X", "Y", "Z">>
    IN  IF \E i \in 1..26 : lower[i] = c
        THEN upper[CHOOSE i \in 1..26 : lower[i] = c]
        ELSE IF c = "a_circumflex" THEN "A_circumflex"
        ELSE c

\* str::to_uppercase
to_uppercase(s) == [i \in 1..Len(s) |-> char_to_uppercase(s[i])]

Ok(v) == [tag |-> "Ok", value |-> v]

Err(msg) == [tag |-> "Err", value |-> msg]

Panic == [tag |-> "panic", value |-> "byte index is not a char boundary"]

parse_rank(s) ==
    CASE s = <<"2">> -> Ok("Two")
      [] s = <<"3">> -> Ok("Three")
      [] s = <<"4">> -> Ok("Four")
      [] s = <<"5">> -> Ok("Five")
      [] s = <<"6">> -> Ok("Six")
      [] s = <<"7">> -> Ok("Seven")
      [] s = <<"8">> -> Ok("Eight")
      [] s = <<"9">> -> Ok("Nine")
      [] s = <<"1", "0">> -> Ok("Ten")
      [] s = <<"J">> -> Ok("Jack")
      [] s = <<"Q">> -> Ok("Queen")
      [] s = <<"K">> -> Ok("King")
      [] s = <<"A">> -> Ok("Ace")
      [] OTHER -> Err("Invalid rank")

parse_suit(s) ==
    LET upper == to_uppercase(s)
    IN  CASE upper = <<"H">> -> Ok("Hearts")
          [] upper = <<"D">> -> Ok("Diamonds")
          [] upper = <<"C">> -> Ok("Clubs")
          [] upper = <<"S">> -> Ok("Spades")
          [] OTHER -> Err("Invalid suit")

\* The end of parse_card, from the two parts on: `?` returns the first error.
parse_parts(rank_str, suit_str) ==
    LET rank == parse_rank(rank_str)
        suit == parse_suit(suit_str)
    IN  IF rank.tag = "Err" THEN rank
        ELSE IF suit.tag = "Err" THEN suit
        ELSE Ok(Card_new(rank.value, suit.value))

parse_card(s) ==
    IF str_len(s) < 2 THEN Err("Invalid card format")
    ELSE IF starts_with(s, <<"1", "0">>)
    THEN LET suit_str == slice_from(s, 2)
         IN  IF suit_str.panic THEN Panic
             ELSE parse_parts(<<"1", "0">>, suit_str.str)
    ELSE LET rank_str == slice_to(s, str_len(s) - 1)
             suit_str == slice_from(s, str_len(s) - 1)
         IN  IF rank_str.panic \/ suit_str.panic THEN Panic
             ELSE parse_parts(rank_str.str, suit_str.str)

(***************************************************************************)
(* tui/app.rs: the App and its key events.  A KeyEvent is its code, <<kind>>*)
(* or <<"Char", c>>, and its set of modifiers.                             *)
(***************************************************************************)

\* The longest input buffer followed.
MaxInput == 3

\* App::new
App_new == [should_quit |-> FALSE, input |-> <<>>, selected_tab |-> "Solver"]

\* A variant that stays on the last tab.
next_tab_stops_at_config(tab) ==
    CASE tab = "Solver" -> "Simulator"
      [] tab = "Simulator" -> "Config"
      [] tab = "Config" -> "Config"

next_tab(tab) ==
    CASE tab = "Solver" -> "Simulator"
      [] tab = "Simulator" -> "Config"
      [] tab = "Config" -> "Solver"

previous_tab(tab) ==
    CASE tab = "Solver" -> "Config"
      [] tab = "Simulator" -> "Solver"
      [] tab = "Config" -> "Simulator"

\* String::push and String::pop
push(s, c) == Append(s, c)

pop(s) == IF s = <<>> THEN s ELSE SubSeq(s, 1, Len(s) - 1)

\* A variant that leaves the input as it is.
handle_submit_keeps_input(s) == s

\* handle_submit: self.input.clear()
handle_submit(s) == <<>>

\* The match of handle_event without its arm for 'q'.
handle_event_without_q(app, ev) ==
    LET after ==
            IF ev.code = <<"Char", "c">> /\ "CONTROL" \in ev.modifiers
            THEN [app EXCEPT !.should_quit = TRUE]
            ELSE IF ev.code = <<"Tab">>
            THEN [app EXCEPT !.selected_tab = next_tab(@)]
            ELSE IF ev.code = <<"BackTab">>
            THEN [app EXCEPT !.selected_tab = previous_tab(@)]
            ELSE IF ev.code[1] = "Char"
            THEN [app EXCEPT !.input = push(@, ev.code[2])]
            ELSE IF ev.code = <<"Backspace">>
            THEN [app EXCEPT !.input = pop(@)]
            ELSE IF ev.code = <<"Enter">>
            THEN [app EXCEPT !.input = handle_submit(@)]
            ELSE app
    IN  [app |-> after, returned |-> ~after.should_quit]

\* App::handle_event: the arms of the match in their order, then
\* `!self.should_quit`.
handle_event(app, ev) ==
    LET after ==
            IF ev.code = <<"Char", "c">> /\ "CONTROL" \in ev.modifiers
            THEN [app EXCEPT !.should_quit = TRUE]
            ELSE IF ev.code = <<"Char", "q">>
            THEN [app EXCEPT !.should_quit = TRUE]
            ELSE IF ev.code = <<"Tab">>
            THEN [app EXCEPT !.selected_tab = next_tab(@)]
            ELSE IF ev.code = <<"BackTab">>
            THEN [app EXCEPT !.selected_tab = previous_tab(@)]
            ELSE IF ev.code[1] = "Char"
            THEN [app EXCEPT !.input = push(@, ev.code[2])]
            ELSE IF ev.code = <<"Backspace">>
            THEN [app EXCEPT !.input = pop(@)]
            ELSE IF ev.code = <<"Enter">>
            THEN [app EXCEPT !.input = handle_submit(@)]
            ELSE app
    IN  [app |-> after, returned |-> ~after.should_quit]

\* No token is being parsed.
NoParse ==
    /\ card_str = <<>>
    /\ parsed = <<>>

\* No App has been made.
NoApp ==
    /\ should_quit = FALSE
    /\ input = <<>>
    /\ selected_tab = "Solver"
    /\ event = <<>>
    /\ should_continue = <<>>

NoFrontEnd == NoParse /\ NoApp

NoSimulation ==
    /\ config = <<>>
    /\ rng = <<>>
    /\ scores = <<>>
    /\ run = 0
    /\ hands = <<>>
    /\ sim_results = <<>>
    /\ report = <<>>

NoOutputs ==
    /\ pc = "input"
    /\ NoSimulation
    /\ NoFrontEnd
    /\ hand_type = <<>>
    /\ score_result = <<>>
    /\ results = <<>>
    /\ solver_result = <<>>
    /\ joker_loop = <<>>

\* Plain hands, no jokers.  Every family of hands is closed under reordering.
InitEval ==
    /\ \/ \E k \in 0..MaxEvalCards : cards \in [1..k -> PlainCards]
       \/ \E k \in 6..MaxLongCards : cards \in [1..k -> LongCards]
       \/ \E h \in RunHands \cup TestHands : cards \in PermsOf(h)
       \/ cards \in SingleCards
    /\ jokers = <<>>
    /\ NoOutputs

\* A modified card first or last in a hand of companions, with a few joker
\* lists; the test hands with every short joker list; and the test hands
\* with up to MaxStack copies of one joker.
InitScore ==
    /\ \/ /\ \/ cards = <<>>
             \/ \E c \in ModifiedCards, k \in 0..(MaxScoreCards - 1) :
                    \E rest \in [1..k -> CompanionCards] :
                        cards \in {<<c>> \o rest, rest \o <<c>>}
          /\ jokers \in FewJokerLists
       \/ /\ cards \in TestHands
          /\ \E k \in 0..MaxJokers : jokers \in [1..k -> ScoreJokers]
       \/ /\ cards \in TestHands
          /\ \E k \in 0..MaxStack, j \in StackJokers : jokers = [i \in 1..k |-> j]
    /\ NoOutputs

\* What solve returned, and the `results` it had pushed.
Returned(r) ==
    /\ solver_result' = <<[best_hand |-> r.best_hand,
                           best_score |-> r.best_score,
                           alternatives |-> r.alternatives,
                           best_combo |-> r.best_combo]>>
    /\ results' = r.pushed

\* Solver::new(ScoreCalculator::new(jokers)).solve(&cards)
Solve ==
    /\ pc = "input"
    /\ Returned(solve(cards, jokers))
    /\ pc' = "solved"
    /\ UNCHANGED <<cards, jokers, hand_type, score_result, joker_loop>>
    /\ UNCHANGED simVars
    /\ UNCHANGED <<cliVars, appVars>>

\* Card lists for the solver, with and without jokers.
InitSolve ==
    /\ \/ \E k \in 0..MaxSolveCards : cards \in [1..k -> SolveCards]
       \/ cards \in SolveLists
    /\ jokers \in SolveJokerLists
    /\ NoOutputs

NextHand == Evaluate \/ Calculate

Next == Evaluate \/ Calculate \/ Solve

Spec == InitSolve /\ [][Next]_vars

EvalSpec == InitEval /\ [][NextHand]_vars

ScoreSpec == InitScore /\ [][NextHand]_vars

\* Hands that meet the printed triggers of the conditional jokers: a pair,
\* three kings in diamonds and clubs, two pair, a straight, a flush; and the
\* empty hand.
TriggerHands ==
    { <<>>,
      <<Card_new("Ace", "Hearts"), Card_new("Ace", "Spades")>>,
      <<Card_new("King", "Hearts"), Card_new("King", "Diamonds"), Card_new("King", "Clubs")>>,
      <<Card_new("Two", "Hearts"), Card_new("Two", "Spades"),
        Card_new("Three", "Diamonds"), Card_new("Three", "Clubs")>>,
      <<Card_new("Two", "Hearts"), Card_new("Three", "Diamonds"), Card_new("Four", "Clubs"),
        Card_new("Five", "Spades"), Card_new("Six", "Hearts")>>,
      <<Card_new("Two", "Hearts"), Card_new("Five", "Hearts"), Card_new("Seven", "Hearts"),
        Card_new("Nine", "Hearts"), Card_new("King", "Hearts")>> }

\* The jokers a conditional joker is added to.
TriggerJokers ==
    {Joker_new("Joker"),
     Joker_with_edition(Joker_new("Joker"), "Polychrome"),
     Joker_with_edition(Joker_new("Baron"), "Foil")}

\* Every joker of every kind but Joker, without edition or Negative, of any
\* rarity.
AddedJokers ==
    {Joker_with_rarity(Joker_with_edition(Joker_new(k), e), r) :
        k \in JokerKind \ {"Joker"}, e \in {"None", "Negative"}, r \in JokerRarity}

\* ScoreCalculator::new(jokers) for a short joker list, alone or with one
\* more joker put in at any place.
InitJoker ==
    /\ cards \in TriggerHands
    /\ \E k \in 0..MaxJokers : \E base \in [1..k -> TriggerJokers] :
          \/ jokers = base
          \/ \E j \in AddedJokers, i \in 0..k :
                jokers = SubSeq(base, 1, i) \o <<j>> \o SubSeq(base, i + 1, k)
    /\ NoOutputs

JokerSpec == InitJoker /\ [][NextHand]_vars

\* Cards for the hands that get modifiers.
ModCards ==
    {Card_new("Two", "Hearts"), Card_new("Three", "Hearts"),
     Card_new("Four", "Hearts"), Card_new("Two", "Spades")}

\* More hands that get modifiers: four hearts in a run; four hearts and a
\* spade; a flush; a straight; a straight flush; the ace-low run; a full
\* house; five of a kind in one suit.
ModHands ==
    { <<Card_new("Two", "Hearts"), Card_new("Three", "Hearts"),
        Card_new("Four", "Hearts"), Card_new("Five", "Hearts")>>,
      <<Card_new("Two", "Hearts"), Card_new("Five", "Hearts"), Card_new("Seven", "Hearts"),
        Card_new("Nine", "Hearts"), Card_new("King", "Spades")>>,
      <<Card_new("Two", "Hearts"), Card_new("Five", "Hearts"), Card_new("Seven", "Hearts"),
        Card_new("Nine", "Hearts"), Card_new("King", "Hearts")>>,
      <<Card_new("Two", "Hearts"), Card_new("Three", "Diamonds"), Card_new("Four", "Clubs"),
        Card_new("Five", "Spades"), Card_new("Six", "Hearts")>>,
      <<Card_new("Nine", "Clubs"), Card_new("Ten", "Clubs"), Card_new("Jack", "Clubs"),
        Card_new("Queen", "Clubs"), Card_new("King", "Clubs")>>,
      <<Card_new("Ace", "Hearts"), Card_new("Two", "Diamonds"), Card_new("Three", "Clubs"),
        Card_new("Four", "Spades"), Card_new("Five", "Hearts")>>,
      <<Card_new("King", "Hearts"), Card_new("King", "Diamonds"), Card_new("King", "Clubs"),
        Card_new("Ace", "Spades"), Card_new("Ace", "Hearts")>>,
      <<Card_new("Ace", "Hearts"), Card_new("Ace", "Hearts"), Card_new("Ace", "Hearts"),
        Card_new("Ace", "Hearts"), Card_new("Ace", "Hearts")>> }

\* The modifiers put on a card: each enhancement, each edition and each seal
\* alone, and one of each together.
Modifiers ==
    {[enhancement |-> e, edition |-> "None", seal |-> <<>>] : e \in Enhancement \ {"None"}}
    \cup {[enhancement |-> "None", edition |-> d, seal |-> <<>>] : d \in Edition \ {"None"}}
    \cup {[enhancement |-> "None", edition |-> "None", seal |-> <<x>>] : x \in Seal}
    \cup {[enhancement |-> "Wild", edition |-> "Polychrome", seal |-> <<"Red">>]}

\* with_enhancement, with_edition and with_seal in a row (the seal is kept
\* when v has none).
with_modifiers(card, v) ==
    [with_edition(with_enhancement(card, v.enhancement), v.edition)
        EXCEPT !.seal = v.seal]

\* A hand as built, or with one modifier set put on its first card, on its
\* last card, or on every card.
InitModified ==
    /\ \E base \in UNION {[1..k -> ModCards] : k \in 0..MaxModCards} \cup ModHands :
          \/ cards = base
          \/ \E v \in Modifiers, where \in {{1}, {Len(base)}, 1..Len(base)} :
                /\ base # <<>>
                /\ cards = [i \in 1..Len(base) |->
                               IF i \in where THEN with_modifiers(base[i], v)
                               ELSE base[i]]
    /\ jokers = <<>>
    /\ NoOutputs

ModifiedSpec == InitModified /\ [][NextHand]_vars

\* The jokers the followed loop has yet to visit.
LoopJokers ==
    {Joker_new("Joker"),
     Joker_with_edition(Joker_new("Joker"), "Foil"),
     Joker_with_edition(Joker_new("Baron"), "Holographic"),
     Joker_with_edition(Joker_new("Joker"), "Polychrome")}

\* How many Foil Barons the loop has visited already.
FoilsVisited == {0, 1, 42949672}

\* How many Holographic Barons the loop has visited already.
HolographicsVisited == {0, 214748364}

\* calculate_joker_bonuses part-way through a joker list that began with f
\* Foil and h Holographic jokers of kind Baron: chips = 50 f, mult = 10 h,
\* either in a build with overflow checks or in one without.
\* The hands scored while the joker loop is followed step by step.
LoopHands == {<<>>, <<Card_new("Two", "Hearts")>>}

InitJokerLoop ==
    /\ cards \in LoopHands
    /\ \E k \in 0..MaxLoopJokers : jokers \in [1..k -> LoopJokers]
    /\ \E f \in FoilsVisited, h \in HolographicsVisited, checks \in BOOLEAN :
          joker_loop = <<[chips |-> 50 * f, mult |-> 10 * h,
                          mult_multiplier |-> f32_one,
                          overflow_checks |-> checks, panicked |-> FALSE,
                          total_chips |-> <<>>]>>
    /\ pc = "joker_loop"
    /\ hand_type = <<>>
    /\ score_result = <<>>
    /\ results = <<>>
    /\ solver_result = <<>>
    /\ NoSimulation
    /\ NoFrontEnd

\* One turn of `for joker in &self.jokers`; a panic ends the call.
JokerLoopStep ==
    /\ pc = "joker_loop"
    /\ jokers # <<>>
    /\ joker_loop' = <<joker_bonus_step_i32(joker_loop[1], Head(jokers))>>
    /\ jokers' = Tail(jokers)
    /\ pc' = IF joker_loop'[1].panicked THEN "panicked" ELSE "joker_loop"
    /\ UNCHANGED <<cards, hand_type, score_result, results, solver_result>>
    /\ UNCHANGED simVars
    /\ UNCHANGED <<cliVars, appVars>>

\* The loop is over: calculate_joker_bonuses returns its three locals.
JokerLoopReturn ==
    /\ pc = "joker_loop"
    /\ jokers = <<>>
    /\ pc' = "joker_bonuses"
    /\ UNCHANGED <<cards, jokers, hand_type, score_result, results, solver_result,
                   joker_loop>>
    /\ UNCHANGED simVars
    /\ UNCHANGED <<cliVars, appVars>>

\* calculate's next step on the returned sums: total_chips (line 60).
JokerLoopTotalChips ==
    /\ pc = "joker_bonuses"
    /\ joker_loop' = <<[joker_loop[1] EXCEPT !.total_chips =
                          <<saturating_add_signed(
                              HandType_base_chips(evaluate(cards))
                                + calculate_card_bonuses(cards).chips,
                              joker_loop[1].chips)>>]>>
    /\ pc' = "total_chips"
    /\ UNCHANGED <<cards, jokers, hand_type, score_result, results, solver_result>>
    /\ UNCHANGED simVars
    /\ UNCHANGED <<cliVars, appVars>>

NextJokerLoop == JokerLoopStep \/ JokerLoopReturn \/ JokerLoopTotalChips

JokerLoopSpec == InitJokerLoop /\ [][NextJokerLoop]_vars

\* Decks for the simulator: none, one card, two cards, and three cards with
\* a pair among them.
SimDecks ==
    { <<>>,
      <<Card_new("Two", "Hearts")>>,
      <<Card_new("Two", "Hearts"), Card_new("Ace", "Spades")>>,
      <<Card_new("Two", "Hearts"), Card_new("Two", "Spades"), Card_new("Ace", "Hearts")>> }

\* No seed, and the seeds 0 and 42 (the seed of test_simulation_with_seed).
SimSeeds == {<<>>, <<0>>, <<42>>}

\* Simulator::new(Solver::new(ScoreCalculator::new(jokers))) and a
\* SimulationConfig, before simulate is called.
InitSim ==
    /\ \E deck \in SimDecks, hand_size \in 0..MaxHandSize, num_runs \in 0..MaxRuns,
          seed \in SimSeeds :
          config = <<[deck |-> deck, hand_size |-> hand_size,
                      num_runs |-> num_runs, seed |-> seed]>>
    /\ jokers \in SolveJokerLists
    /\ cards = <<>>
    /\ pc = "input"
    /\ hand_type = <<>>
    /\ score_result = <<>>
    /\ results = <<>>
    /\ solver_result = <<>>
    /\ joker_loop = <<>>
    /\ rng = <<>>
    /\ scores = <<>>
    /\ run = 0
    /\ hands = <<>>
    /\ sim_results = <<>>
    /\ report = <<>>
    /\ NoFrontEnd

\* simulate(config) is called: the generator and an empty `scores`.
SimStart ==
    /\ pc \in {"input", "simulated"}
    /\ Len(sim_results) < MaxCalls
    /\ \E g \in create_rng(config[1].seed) : rng' = <<g>>
    /\ scores' = <<>>
    /\ run' = 0
    /\ hands' = <<>>
    /\ pc' = "simulating"
    /\ UNCHANGED <<cards, jokers, hand_type, score_result, results, solver_result,
                   joker_loop, config, sim_results>>
    /\ UNCHANGED <<cliVars, appVars>>

\* One turn of the loop: draw a hand, solve it, push its score.
SimIterate ==
    /\ pc = "simulating"
    /\ loop_continues(run, config[1].num_runs)
    /\ \E drawn \in {draw_random_hand(config[1].deck, config[1].hand_size, rng[1])} :
          \E result \in {solve(drawn.hand, jokers)} :
             /\ rng' = <<drawn.rng>>
             /\ cards' = drawn.hand
             /\ hands' = Append(hands, drawn.hand)
             /\ Returned(result)
             /\ scores' = Append(scores, recorded_score(result))
    /\ run' = run + 1
    /\ UNCHANGED <<jokers, pc, hand_type, score_result, joker_loop, config, sim_results>>
    /\ UNCHANGED <<cliVars, appVars>>

\* The loop is over: simulate returns calculate_statistics(scores, num_runs).
SimReturn ==
    /\ pc = "simulating"
    /\ ~loop_continues(run, config[1].num_runs)
    /\ sim_results' = Append(sim_results,
                             calculate_statistics(scores, config[1].num_runs))
    /\ pc' = "simulated"
    /\ UNCHANGED <<cards, jokers, hand_type, score_result, results, solver_result,
                   joker_loop, config, rng, scores, run, hands>>
    /\ UNCHANGED <<cliVars, appVars>>

\* The simulate command prints the result just returned in detailed format.
DisplayDetailed ==
    /\ pc = "simulated"
    /\ report # <<display_detailed(sim_results[Len(sim_results)])>>
    /\ report' = <<display_detailed(sim_results[Len(sim_results)])>>
    /\ UNCHANGED <<cards, jokers, pc, hand_type, score_result, results, solver_result,
                   joker_loop, card_str, parsed>>
    /\ UNCHANGED <<simVars, appVars>>

NextSim == SimStart \/ SimIterate \/ SimReturn \/ DisplayDetailed

SimSpec == InitSim /\ [][NextSim]_vars

\* The guard of SimIterate; its other conjuncts only assign, and run changes,
\* so this is ENABLED <<SimIterate>>_vars.
SimIterateEnabled == pc = "simulating" /\ loop_continues(run, config[1].num_runs)

\* What a turn does to the loop counter; under SimSpec the steps that do
\* this are the SimIterate steps.
SimTurn == pc = "simulating" /\ run' = run + 1

\* WF_vars(SimIterate), written out over the two definitions above.
SimIterateFair == []<>~SimIterateEnabled \/ []<><<SimTurn>>_vars

\* simulate is sequential code with no waiting: a call that has started
\* takes its next turn, and returns when the loop is over.
SimLiveSpec == SimSpec /\ SimIterateFair /\ WF_vars(SimReturn)

\* Nothing is being evaluated, scored, solved or simulated.
NoScoring ==
    /\ cards = <<>>
    /\ jokers = <<>>
    /\ pc = "input"
    /\ hand_type = <<>>
    /\ score_result = <<>>
    /\ results = <<>>
    /\ solver_result = <<>>
    /\ joker_loop = <<>>
    /\ NoSimulation

\* The chars the tokens are made of: rank and suit letters, a lowercase
\* letter, a char that is neither, and the chars of the suits as printed.
TokenChars ==
    {"1", "0", "A", "H", "h", "X", "heart", "a_circumflex", "trade_mark", "yen"}

InitParse ==
    /\ \E n \in 0..MaxTokenChars : card_str \in [1..n -> TokenChars]
    /\ parsed = <<>>
    /\ NoApp
    /\ NoScoring

\* parse_card(card_str); a panic ends the program.
ParseCard ==
    /\ pc = "input"
    /\ parsed' = <<parse_card(card_str)>>
    /\ pc' = "parsed"
    /\ UNCHANGED <<cards, jokers, hand_type, score_result, results, solver_result,
                   joker_loop, card_str, report>>
    /\ UNCHANGED <<simVars, appVars>>

ParseSpec == InitParse /\ [][ParseCard]_vars

\* The key events sent to the App.
KeyCodes ==
    {<<"Char", c>> : c \in {"a", "c", "q", "Q"}}
        \cup {<<"Tab">>, <<"BackTab">>, <<"Backspace">>, <<"Enter">>, <<"Esc">>,
              <<"Left">>}

KeyEvents == [code : KeyCodes, modifiers : SUBSET {"CONTROL", "SHIFT"}]

InitApp ==
    /\ should_quit = App_new.should_quit
    /\ input = App_new.input
    /\ selected_tab = App_new.selected_tab
    /\ event = <<>>
    /\ should_continue = <<>>
    /\ NoParse
    /\ NoScoring

\* app.handle_event(ev), for any key event; the buffer is followed up to
\* MaxInput chars.
HandleEvent ==
    \E ev \in KeyEvents :
        \E handled \in {handle_event([should_quit |-> should_quit, input |-> input,
                                      selected_tab |-> selected_tab], ev)} :
            /\ Len(handled.app.input) <= MaxInput
            /\ should_quit' = handled.app.should_quit
            /\ input' = handled.app.input
            /\ selected_tab' = handled.app.selected_tab
            /\ event' = <<ev>>
            /\ should_continue' = <<handled.returned>>
            /\ UNCHANGED <<cards, jokers, pc, hand_type, score_result, results,
                           solver_result, joker_loop>>
            /\ UNCHANGED <<simVars, cliVars>>

AppSpec == InitApp /\ [][HandleEvent]_vars

-----------------------------------------------------------------------------
(* Vocabulary of the properties: stated over sets and sums, independently   *)
(* of the loops above.                                                      *)

Positions(cs) == 1..Len(cs)

CountOfRank(cs, r) == Cardinality({i \in Positions(cs) : cs[i].rank = r})

ValuesOf(cs) == {Rank_value(cs[i].rank) : i \in Positions(cs)}

AllOneSuit(cs) == \A i, j \in Positions(cs) : cs[i].suit = cs[j].suit

FlushOf(cs) == Len(cs) >= 5 /\ AllOneSuit(cs)

AceLowRun == {14, 2, 3, 4, 5}

StraightOf(cs) ==
    /\ Len(cs) >= 5
    /\ \/ \E v \in 2..10 : \A d \in 0..4 : (v + d) \in ValuesOf(cs)
       \/ AceLowRun \subseteq ValuesOf(cs)

CountsOf(cs) == [r \in Rank |-> CountOfRank(cs, r)]

HasCount(cnt, n) == \E r \in Rank : cnt[r] = n

HasCountAtLeast(cnt, n) == \E r \in Rank : cnt[r] >= n

MaxCountIs(cnt, n) == HasCount(cnt, n) /\ ~HasCountAtLeast(cnt, n + 1)

\* The first matching type of the precedence list, for a hand with rank
\* counts cnt that is a flush or not and a straight or not.
FirstMatchOf(cnt, flush, straight) ==
    CASE HasCountAtLeast(cnt, 5) /\ flush -> "FlushFive"
      [] flush /\ HasCount(cnt, 3) /\ HasCount(cnt, 2) -> "FlushHouse"
      [] HasCountAtLeast(cnt, 5) -> "FiveOfAKind"
      [] straight /\ flush -> "StraightFlush"
      [] MaxCountIs(cnt, 4) -> "FourOfAKind"
      [] HasCount(cnt, 3) /\ HasCount(cnt, 2) -> "FullHouse"
      [] flush -> "Flush"
      [] straight -> "Straight"
      [] MaxCountIs(cnt, 3) -> "ThreeOfAKind"
      [] Cardinality({r \in Rank : cnt[r] = 2}) >= 2 -> "TwoPair"
      [] MaxCountIs(cnt, 2) -> "Pair"
      [] OTHER -> "HighCard"

FirstMatch(cs) == FirstMatchOf(CountsOf(cs), FlushOf(cs), StraightOf(cs))

SwapCards(cs, i, j) == [cs EXCEPT ![i] = cs[j], ![j] = cs[i]]

RECURSIVE SumOver(_, _)
SumOver(F(_), s) == IF s = <<>> THEN 0 ELSE F(Head(s)) + SumOver(F, Tail(s))

\* Rank chips as the specification words them: 2-10 by face, J/Q/K 10, A 11.
FaceChips(card) ==
    CASE card.rank = "Ace" -> 11
      [] card.rank \in {"Jack", "Queen", "King"} -> 10
      [] OTHER -> Rank_value(card.rank)

TableChips ==
    [t \in HandType |->
        CASE t = "HighCard" -> 5 [] t = "Pair" -> 10 [] t = "TwoPair" -> 20
          [] t = "ThreeOfAKind" -> 30 [] t = "Straight" -> 30 [] t = "Flush" -> 35
          [] t = "FullHouse" -> 40 [] t = "FourOfAKind" -> 60
          [] t = "StraightFlush" -> 100 [] t = "FiveOfAKind" -> 120
          [] t = "FlushHouse" -> 140 [] t = "FlushFive" -> 160]

TableMult ==
    [t \in HandType |->
        CASE t = "HighCard" -> 1 [] t = "Pair" -> 2 [] t = "TwoPair" -> 2
          [] t = "ThreeOfAKind" -> 3 [] t = "Straight" -> 4 [] t = "Flush" -> 4
          [] t = "FullHouse" -> 4 [] t = "FourOfAKind" -> 7
          [] t = "StraightFlush" -> 8 [] t = "FiveOfAKind" -> 12
          [] t = "FlushHouse" -> 14 [] t = "FlushFive" -> 16]

-----------------------------------------------------------------------------
(* C1: every ScoreResult returned by calculate has score = chips * mult,   *)
(* with chips and mult the result's own final fields (mult after the       *)
(* Polychrome multiplier and the truncation).  Checked under ScoreSpec.    *)
C1_ScoreIsChipsTimesMult ==
    pc = "calculated" =>
        score_result[1].score = score_result[1].chips * score_result[1].mult

\* A result whose mult was scaled by a Polychrome joker and truncated.
C1_Witness ==
    /\ pc = "calculated"
    /\ \E i \in 1..Len(jokers) : jokers[i].edition = "Polychrome"
    /\ LET b == score_result[1].breakdown
       IN  /\ score_result[1].mult > b.base_mult + b.card_mult + b.joker_mult
           /\ 2 * score_result[1].mult # 3 * (b.base_mult + b.card_mult + b.joker_mult)

(* C2: evaluate is invariant under permutation of the card list.          *)
(* Exchanging the first two cards of an evaluated list, and moving its     *)
(* first card to the end, both leave the hand type unchanged; the lists of *)
(* EvalSpec are closed under reordering, and these two reorderings         *)
(* generate every permutation.  Checked under EvalSpec.                    *)
C2_PermutationInvariant ==
    (pc = "evaluated" /\ Len(cards) >= 2) =>
        /\ evaluate(SwapCards(cards, 1, 2)) = hand_type[1]
        /\ evaluate(Tail(cards) \o <<cards[1]>>) = hand_type[1]

\* A six-card straight with a repeated card, given out of rank order.
C2_Witness ==
    /\ pc = "evaluated"
    /\ Len(cards) = 6
    /\ hand_type = <<"Straight">>
    /\ cards[1] = cards[6]
    /\ Rank_value(cards[2].rank) > Rank_value(cards[3].rank)

(* C3: evaluate returns the first matching type of the fixed precedence    *)
(* FlushFive > FlushHouse > FiveOfAKind > StraightFlush > FourOfAKind >    *)
(* FullHouse > Flush > Straight > ThreeOfAKind > TwoPair > Pair >          *)
(* HighCard, and HighCard for the empty list.  Checked under EvalSpec.     *)
C3_FirstMatchingType ==
    pc = "evaluated" =>
        hand_type[1] = (IF cards = <<>> THEN "HighCard" ELSE FirstMatch(cards))

\* Four of a kind that is also a flush: the earlier entry of the list wins.
C3_Witness ==
    /\ pc = "evaluated"
    /\ hand_type = <<"FourOfAKind">>
    /\ FlushOf(cards)

(* C4: a 5-card hand that is a flush (one suit) and a straight (five       *)
(* distinct consecutive ranks, or A-2-3-4-5) evaluates to StraightFlush,   *)
(* never to Flush or Straight.  Checked under EvalSpec.                    *)
C4_StraightFlushWins ==
    (/\ pc = "evaluated"
     /\ Len(cards) = 5
     /\ AllOneSuit(cards)
     /\ Cardinality(ValuesOf(cards)) = 5
     /\ \/ \E v \in 2..10 : ValuesOf(cards) = v..(v + 4)
        \/ ValuesOf(cards) = AceLowRun)
    => hand_type = <<"StraightFlush">>

\* The ace-low straight flush, evaluated.
C4_Witness ==
    /\ pc = "evaluated"
    /\ Len(cards) = 5
    /\ AllOneSuit(cards)
    /\ ValuesOf(cards) = AceLowRun
    /\ hand_type = <<"StraightFlush">>

\* The entries solve returned: the best one, then the alternatives.
ReturnedEntries ==
    IF solver_result[1].best_score = <<>> THEN <<>>
    ELSE <<[combo |-> solver_result[1].best_combo,
            hand |-> solver_result[1].best_hand,
            score |-> solver_result[1].best_score[1]]>>
         \o solver_result[1].alternatives

\* The entries of `results` that a descending stable sort puts in front of
\* the entry pushed q-th: those of higher score, and those of the same score
\* pushed earlier.
RankedBefore(q) ==
    {q2 \in 1..Len(results) :
        \/ results[q2].score.score > results[q].score.score
        \/ results[q2].score.score = results[q].score.score /\ q2 < q}

IsIncreasing(combo) == \A j \in 1..(Len(combo) - 1) : combo[j] < combo[j + 1]

\* Lexicographic order of index sequences: at the first position where they
\* differ a has the smaller index, or a is a proper prefix of b.
LexLess(a, b) ==
    \/ \E j \in 1..min(Len(a), Len(b)) :
          /\ a[j] < b[j]
          /\ \A h \in 1..(j - 1) : a[h] = b[h]
    \/ /\ Len(a) < Len(b)
       /\ \A h \in 1..Len(a) : a[h] = b[h]

\* The order of the enumeration: shorter first, then lexicographic.
EnumeratedBefore(a, b) ==
    \/ Len(a) < Len(b)
    \/ Len(a) = Len(b) /\ LexLess(a, b)

RECURSIVE Binomial(_, _)
Binomial(n, k) ==
    IF k = 0 THEN 1
    ELSE IF n = 0 THEN 0
    ELSE Binomial(n - 1, k - 1) + Binomial(n - 1, k)

RECURSIVE SumOfBinomials(_, _)
SumOfBinomials(n, m) ==
    IF m = 0 THEN 0 ELSE SumOfBinomials(n, m - 1) + Binomial(n, m)

\* The combinations of `results` that reach the highest score.
MaxScoreCombos ==
    {results[q].combo : q \in {q1 \in 1..Len(results) :
        \A q2 \in 1..Len(results) :
            results[q2].score.score <= results[q1].score.score}}

(* C5: for every nonempty card list and every joker list, solve returns at *)
(* most 3 alternatives, and best_score.score is greater than or equal to   *)
(* the score of every alternative.  Checked under Spec.                    *)
C5_BestAndAtMostThree ==
    (pc = "solved" /\ cards # <<>>) =>
        /\ Len(solver_result[1].alternatives) <= 3
        /\ solver_result[1].best_score # <<>>
        /\ \A a \in 1..Len(solver_result[1].alternatives) :
              solver_result[1].best_score[1].score
                  >= solver_result[1].alternatives[a].score.score

\* Three alternatives, each of a lower score than the one before, with a
\* joker in play.
C5_Witness ==
    /\ pc = "solved"
    /\ jokers # <<>>
    /\ Len(solver_result[1].alternatives) = 3
    /\ solver_result[1].best_score[1].score
           > solver_result[1].alternatives[1].score.score
    /\ solver_result[1].alternatives[1].score.score
           > solver_result[1].alternatives[3].score.score

(* C6: solve on the empty card list returns a best_hand with no cards,     *)
(* best_score None and no alternatives, for any joker list, and scores     *)
(* nothing: `results` stays empty.  Checked under Spec.                    *)
C6_EmptyInput ==
    (pc = "solved" /\ cards = <<>>) =>
        /\ solver_result[1].best_hand = <<>>
        /\ solver_result[1].best_score = <<>>
        /\ solver_result[1].alternatives = <<>>
        /\ results = <<>>

\* The empty list solved with a joker in play.
C6_Witness ==
    /\ pc = "solved"
    /\ cards = <<>>
    /\ jokers # <<>>
    /\ solver_result # <<>>

(* C7: solve ranks the scored combinations by descending score with a      *)
(* stable sort: the entry returned at position p (best_hand first, then    *)
(* the alternatives) is the pushed entry that has exactly p - 1 entries of *)
(* higher score, or of equal score and earlier in the enumeration, in      *)
(* front of it, and the first four such entries are returned.  Among the   *)
(* combinations of the highest score, best_hand is the lexicographically   *)
(* first by source index.  Checked under Spec.                             *)
C7_StableDescending ==
    (pc = "solved" /\ cards # <<>>) =>
        /\ Len(ReturnedEntries) = min(4, Len(results))
        /\ \A p \in 1..Len(ReturnedEntries) :
              \E q \in 1..Len(results) :
                  /\ results[q] = ReturnedEntries[p]
                  /\ Cardinality(RankedBefore(q)) = p - 1
        /\ solver_result[1].best_combo \in MaxScoreCombos
        /\ \A c \in MaxScoreCombos :
              c = solver_result[1].best_combo
                  \/ LexLess(solver_result[1].best_combo, c)

\* Several combinations reach the highest score and there are more of them
\* than are returned; the returned ones are all of that score.
C7_Witness ==
    /\ pc = "solved"
    /\ Cardinality(MaxScoreCombos) > 4
    /\ Len(solver_result[1].alternatives) = 3
    /\ solver_result[1].alternatives[3].score.score
           = solver_result[1].best_score[1].score
    /\ solver_result[1].best_combo # <<1, 2, 3, 4, 5>>

(* C8: for a card list of length n >= 1, solve scores exactly the          *)
(* combinations given by the strictly increasing index sequences of length *)
(* k for every k in 1..min(5, n), each once: the sum of C(n, k) in all,    *)
(* generate_combinations(cards, k) yielding C(n, k) of them; they are      *)
(* enumerated with k ascending and, within one k, in lexicographic order   *)
(* of the index sequence, and each keeps its cards in source order.        *)
(* Checked under Spec.                                                     *)
C8_Enumeration ==
    (pc = "solved" /\ cards # <<>>) =>
        /\ \A q \in 1..Len(results) :
              /\ Len(results[q].combo) \in 1..min(5, Len(cards))
              /\ \A j \in 1..Len(results[q].combo) :
                    results[q].combo[j] \in 1..Len(cards)
              /\ IsIncreasing(results[q].combo)
              /\ results[q].hand =
                    [j \in 1..Len(results[q].combo) |-> cards[results[q].combo[j]]]
        /\ \A q \in 1..(Len(results) - 1) :
              EnumeratedBefore(results[q].combo, results[q + 1].combo)
        /\ Len(results) = SumOfBinomials(Len(cards), min(5, Len(cards)))
        /\ \A k \in 1..Len(cards) :
              Len(generate_combinations(cards, k)) = Binomial(Len(cards), k)

\* More than five cards: the last combination scored has five cards and
\* does not hold the first card.
C8_Witness ==
    /\ pc = "solved"
    /\ Len(cards) > 5
    /\ results # <<>>
    /\ Len(results[Len(results)].combo) = 5
    /\ results[Len(results)].combo[1] > 1

(* C9: with no jokers and unmodified cards, calculate returns hand_type =  *)
(* evaluate(hand), base chips and mult of the per-type table, card_chips   *)
(* the sum of the cards' rank chips, chips = base_chips + card_chips and   *)
(* mult = base_mult; two Aces give Pair, 32 chips, mult 2, score 64, and   *)
(* 2,5,7,9,K of hearts give Flush, 68 chips, mult 4, score 272.            *)
(* Checked under EvalSpec.                                                 *)
C9_PlainScoring ==
    pc = "calculated" =>
        LET r == score_result[1]
        IN  /\ r.hand_type = evaluate(cards)
            /\ r.breakdown.base_chips = TableChips[r.hand_type]
            /\ r.breakdown.base_mult = TableMult[r.hand_type]
            /\ r.breakdown.card_chips = SumOver(FaceChips, cards)
            /\ r.chips = r.breakdown.base_chips + r.breakdown.card_chips
            /\ r.mult = r.breakdown.base_mult
            /\ (cards = <<Card_new("Ace", "Hearts"), Card_new("Ace", "Spades")>>
                => /\ r.hand_type = "Pair"
                   /\ r.chips = 32
                   /\ r.mult = 2
                   /\ r.score = 64)
            /\ (cards = <<Card_new("Two", "Hearts"), Card_new("Five", "Hearts"),
                          Card_new("Seven", "Hearts"), Card_new("Nine", "Hearts"),
                          Card_new("King", "Hearts")>>
                => /\ r.hand_type = "Flush"
                   /\ r.chips = 68
                   /\ r.mult = 4
                   /\ r.score = 272)

\* The flush of test_flush_evaluation, scored.
C9_Witness ==
    /\ pc = "calculated"
    /\ jokers = <<>>
    /\ Len(cards) = 5
    /\ cards[5] = Card_new("King", "Hearts")
    /\ score_result[1].score = 272

\* What the specification lists as a card's additive bonuses.
BonusChips(card) ==
    FaceChips(card)
    + (CASE card.enhancement = "Bonus" -> 30
         [] card.enhancement = "Stone" -> 50
         [] OTHER -> 0)
    + (IF card.edition = "Foil" THEN 50 ELSE 0)

BonusMult(card) ==
    (IF card.enhancement = "Mult" THEN 4 ELSE 0)
    + (IF card.edition = "Holographic" THEN 10 ELSE 0)

InertEnhancements == {"Wild", "Glass", "Steel", "Gold", "Lucky"}

InertEditions == {"Polychrome", "Negative"}

NoInertEnhancement(card) ==
    IF card.enhancement \in InertEnhancements
    THEN [card EXCEPT !.enhancement = "None"] ELSE card

NoInertEdition(card) ==
    IF card.edition \in InertEditions THEN [card EXCEPT !.edition = "None"] ELSE card

NoSeal(card) == [card EXCEPT !.seal = <<>>]

Stripped(card) == NoSeal(NoInertEdition(NoInertEnhancement(card)))

-----------------------------------------------------------------------------
(* Vocabulary of the joker claims, in exact integer arithmetic. *)

CountJokers(js, P(_)) == Cardinality({i \in 1..Len(js) : P(js[i])})

IsKindJoker(j) == j.kind = "Joker"

IsFoil(j) == j.edition = "Foil"

IsHolographic(j) == j.edition = "Holographic"

IsPolychrome(j) == j.edition = "Polychrome"

RECURSIVE Pow3(_)
Pow3(k) == IF k = 0 THEN 1 ELSE 3 * Pow3(k - 1)

\* The f32 x is exactly 1.5^p = 3^p / 2^p.
IsThreeHalvesToThe(x, p) ==
    /\ x.e + p <= 0
    /\ x.m % Pow2(0 - (x.e + p)) = 0
    /\ x.m \div Pow2(0 - (x.e + p)) = Pow3(p)

\* floor(t * 1.5^p): whole + frac / 2^k is t * 1.5^k, taken from k to p.
RECURSIVE FloorTimesThreeHalves(_, _, _, _)
FloorTimesThreeHalves(whole, frac, k, p) ==
    IF k = p THEN whole
    ELSE LET n == ((3 * whole) % 2) * Pow2(k) + 3 * frac
         IN  FloorTimesThreeHalves((3 * whole) \div 2 + n \div Pow2(k + 1),
                                   n % Pow2(k + 1), k + 1, p)

(* C11: with j jokers of kind Joker, f Foil, h Holographic and p           *)
(* Polychrome jokers, calculate yields joker_chips = 50 f, joker_mult =    *)
(* 4 j + 10 h, joker_mult_multiplier = 1.5^p, chips = base_chips +         *)
(* card_chips + joker_chips and mult = floor((base_mult + card_mult +      *)
(* joker_mult) * 1.5^p); King and Queen with one plain Joker give          *)
(* HighCard, 25 chips, mult 5, score 125.  Checked under ScoreSpec.        *)
C11_JokerFormula ==
    pc = "calculated" =>
        LET r == score_result[1]
            b == r.breakdown
            p == CountJokers(jokers, IsPolychrome)
        IN  /\ b.joker_chips = 50 * CountJokers(jokers, IsFoil)
            /\ b.joker_mult = 4 * CountJokers(jokers, IsKindJoker)
                                + 10 * CountJokers(jokers, IsHolographic)
            /\ IsThreeHalvesToThe(b.joker_mult_multiplier, p)
            /\ r.chips = b.base_chips + b.card_chips + b.joker_chips
            /\ r.mult = FloorTimesThreeHalves(
                            b.base_mult + b.card_mult + b.joker_mult, 0, 0, p)
            /\ (/\ cards = <<Card_new("King", "Hearts"), Card_new("Queen", "Hearts")>>
                /\ jokers = <<Joker_new("Joker")>>)
               => (/\ r.hand_type = "HighCard" /\ r.chips = 25
                   /\ r.mult = 5 /\ r.score = 125)

ConditionalKinds ==
    {"GreedyJoker", "LustyJoker", "WrathfulJoker", "GluttonousJoker", "JollyJoker",
     "ZanyJoker", "MadJoker", "CrazyJoker", "DrollJoker", "Baron"}

RemoveAt(s, i) == SubSeq(s, 1, i - 1) \o SubSeq(s, i + 1, Len(s))

C13_NoOverflow ==
    /\ pc # "panicked"
    /\ joker_loop # <<>> => (joker_loop[1].chips >= 0 /\ joker_loop[1].mult >= 0)

ShortHandTypes == {"HighCard", "Pair", "TwoPair", "ThreeOfAKind", "FourOfAKind"}

(* C14: a hand of fewer than five cards is never a flush or a straight:    *)
(* for every card list of length 0 to 4, whatever its suits, ranks and      *)
(* modifiers, evaluate returns HighCard, Pair, TwoPair, ThreeOfAKind or     *)
(* FourOfAKind.  Checked under ModifiedSpec.                                *)
C14_ShortHands ==
    (pc = "evaluated" /\ Len(cards) < 5) => hand_type[1] \in ShortHandTypes

\* Four hearts in a run of four, one of them Wild, evaluated.
C14_Witness ==
    /\ pc = "evaluated"
    /\ Len(cards) = 4
    /\ AllOneSuit(cards)
    /\ ValuesOf(cards) = 2..5
    /\ \E i \in Positions(cards) : cards[i].enhancement = "Wild"
    /\ hand_type = <<"HighCard">>

(* C15: a hand is a straight exactly when it has at least five cards and    *)
(* the set of its distinct rank values contains five consecutive values or  *)
(* the ace-low run {14, 2, 3, 4, 5}; only a straight evaluates to Straight  *)
(* or StraightFlush; 10-J-Q-K-A is a straight and Q-K-A-2-3 is not.         *)
(* Checked under EvalSpec.                                                  *)
C15_StraightExactly ==
    pc = "evaluated" =>
        /\ is_straight(cards) <=> StraightOf(cards)
        /\ hand_type[1] \in {"Straight", "StraightFlush"} => StraightOf(cards)
        /\ ValuesOf(cards) = 10..14 /\ Len(cards) = 5 /\ ~AllOneSuit(cards)
           => hand_type = <<"Straight">>
        /\ ValuesOf(cards) = {12, 13, 14, 2, 3} => ~is_straight(cards)

\* Q-K-A-2-3 of clubs, evaluated: a flush, not a straight flush.
C15_Witness ==
    /\ pc = "evaluated"
    /\ Len(cards) = 5
    /\ ValuesOf(cards) = {12, 13, 14, 2, 3}
    /\ AllOneSuit(cards)
    /\ hand_type = <<"Flush">>

PlainOf(cs) == collect([i \in Positions(cs) |-> Card_new(cs[i].rank, cs[i].suit)])

-----------------------------------------------------------------------------
(* Vocabulary of the simulator claims. *)

\* The SimulationResult of the call that returned last.
LastResult == sim_results[Len(sim_results)]

\* t is s put in ascending order: as long as s, ascending, and holding every
\* score as often as s does.
IsAscendingArrangement(t, s) ==
    /\ Len(t) = Len(s)
    /\ \A i \in 1..(Len(t) - 1) : t[i] <= t[i + 1]
    /\ \A i \in 1..Len(s) :
          Cardinality({j \in 1..Len(s) : s[j] = s[i]})
              = Cardinality({j \in 1..Len(t) : t[j] = s[i]})

\* floor((n - 1) * num / den) for n >= 1 and 0 <= num <= den.
FloorIndex(n, num, den) ==
    CHOOSE i \in 0..(n - 1) : i * den <= (n - 1) * num /\ (n - 1) * num < (i + 1) * den

PercentileFractions == {<<1, 4>>, <<1, 2>>, <<3, 4>>, <<19, 20>>, <<0, 1>>, <<1, 1>>}

\* The highest score over the hands of 1 to 5 of the cards of h.
BestScoreOf(h, js) ==
    IF h = <<>> THEN 0
    ELSE LET combos == {q \in UNION {[1..k -> 1..Len(h)] : k \in 1..min(5, Len(h))} :
                            IsIncreasing(q)}
             found == {calculate(collect([j \in 1..Len(q) |-> h[q[j]]]), js).score :
                            q \in combos}
         IN  CHOOSE m \in found : \A x \in found : x <= m

(* C17: two calls of simulate with the same deck, hand_size and num_runs    *)
(* and the same Some(seed) return identical SimulationResults.  Checked     *)
(* under SimSpec.                                                           *)
C17_SeededRunsAgree ==
    config[1].seed # <<>> =>
        \A i, j \in 1..Len(sim_results) : sim_results[i] = sim_results[j]

\* Two calls with seed 42 and six runs have returned, with scores that vary.
C17_Witness ==
    /\ pc = "simulated"
    /\ Len(sim_results) = 2
    /\ config[1].seed = <<42>>
    /\ config[1].num_runs = 6
    /\ sim_results[1].min_score < sim_results[1].max_score
    /\ sim_results[1] = sim_results[2]

(* C18: for nonempty scores of length n, sorted ascending, each percentile  *)
(* is the element at index floor((n - 1) * p): the median for p = 0.5, and  *)
(* p = 0.25, 0.75, 0.95; min and max are the first and the last element;    *)
(* p = 0 gives the minimum and p = 1 the maximum; the index is always in    *)
(* bounds.  Checked under SimSpec.                                          *)
C18_Percentiles ==
    (pc = "simulated" /\ scores # <<>>) =>
        LET r == LastResult
            n == Len(scores)
            sorted == scores_sort_unstable(scores)
        IN  /\ IsAscendingArrangement(sorted, scores)
            /\ r.median_score = sorted[FloorIndex(n, 1, 2) + 1]
            /\ r.percentile_25 = sorted[FloorIndex(n, 1, 4) + 1]
            /\ r.percentile_75 = sorted[FloorIndex(n, 3, 4) + 1]
            /\ r.percentile_95 = sorted[FloorIndex(n, 19, 20) + 1]
            /\ r.min_score = sorted[1]
            /\ r.max_score = sorted[n]
            /\ \A f \in PercentileFractions :
                  /\ percentile_index(n, f[1], f[2]) \in 0..(n - 1)
                  /\ percentile_index(n, f[1], f[2]) = FloorIndex(n, f[1], f[2])
            /\ percentile(sorted, 0, 1) = r.min_score
            /\ percentile(sorted, 1, 1) = r.max_score

\* Six scores whose 75th percentile lies below the 95th.
C18_Witness ==
    /\ pc = "simulated"
    /\ Len(scores) = 6
    /\ LastResult.median_score <= LastResult.percentile_75
    /\ LastResult.percentile_75 < LastResult.percentile_95

(* C19: simulate always terminates: a call that has started returns, after  *)
(* exactly num_runs turns of its loop, each of which pushes exactly one     *)
(* score, with result.num_runs = config.num_runs.  Checked under            *)
(* SimLiveSpec.                                                             *)
C19_Terminates ==
    /\ [](pc = "simulated" => /\ run = config[1].num_runs
                              /\ Len(scores) = config[1].num_runs
                              /\ LastResult.num_runs = config[1].num_runs)
    /\ [](pc = "simulating" => Len(scores) = run /\ run <= config[1].num_runs)
    /\ (pc = "simulating") ~> (pc = "simulated")

\* A call of six runs has returned.
C19_Witness ==
    /\ pc = "simulated"
    /\ config[1].num_runs = 6
    /\ Len(scores) = 6
    /\ config[1].deck # <<>>
    /\ config[1].hand_size > 0

(* C20: the score recorded in a run is best_score.score of solve on the     *)
(* drawn hand, the highest score over its hands, or 0 when there is no best *)
(* score; with hand_size = 0 or an empty deck every recorded score is 0     *)
(* and min, max, median and all percentiles are 0.  Checked under SimSpec.  *)
C20_RecordedScores ==
    pc \in {"simulating", "simulated"} =>
        /\ Len(hands) = Len(scores)
        /\ \A i \in 1..Len(scores) :
              /\ scores[i] = BestScoreOf(hands[i], jokers)
              /\ LET best == solve(hands[i], jokers).best_score
                 IN  scores[i] = IF best = <<>> THEN 0 ELSE best[1].score
        /\ (config[1].hand_size = 0 \/ config[1].deck = <<>>) =>
              /\ \A i \in 1..Len(scores) : hands[i] = <<>> /\ scores[i] = 0
              /\ pc = "simulated" =>
                    /\ LastResult.min_score = 0
                    /\ LastResult.max_score = 0
                    /\ LastResult.median_score = 0
                    /\ LastResult.percentile_25 = 0
                    /\ LastResult.percentile_75 = 0
                    /\ LastResult.percentile_95 = 0

\* Six runs with hand_size 0 on a deck of three cards have returned.
C20_Witness ==
    /\ pc = "simulated"
    /\ config[1].hand_size = 0
    /\ Len(config[1].deck) = 3
    /\ Len(scores) = 6
    /\ LastResult.max_score = 0

\* h is the first cards of the deck taken in the order p of its positions.
DrawnAlong(h, deck, p) ==
    /\ Len(h) <= Len(deck)
    /\ \A j \in 1..Len(h) : h[j] = deck[p[j]]

(* C21: each run draws from a fresh copy of the full configured deck: no    *)
(* step changes the configured deck, and the hand drawn in each run is the  *)
(* first min(hand_size, deck length) cards of a permutation of the whole    *)
(* deck, so no deck position is used twice and the cards of one run are     *)
(* available again in the next.  Checked under SimSpec.                     *)
C21_FreshDeckEachRun ==
    /\ [][config' = config]_vars
    /\ [](\A i \in 1..Len(hands) :
            /\ Len(hands[i]) = min(config[1].hand_size, Len(config[1].deck))
            /\ \E p \in Permutations(1..Len(config[1].deck)) :
                  DrawnAlong(hands[i], config[1].deck, p))

\* Two runs on a deck of three cards drew different hands of two cards that
\* share a card.
C21_Witness ==
    /\ Len(hands) >= 2
    /\ Len(config[1].deck) = 3
    /\ Len(hands[1]) = 2
    /\ hands[1] # hands[2]
    /\ \E j, k \in 1..2 : hands[1][j] = hands[2][k]


(* C22: for every nonempty card list solve returns a best score and a       *)
(* nonempty best hand; every scored nonempty hand has chips >= 7 and        *)
(* mult >= 1, hence a score above 0; so a simulation with a nonempty deck,  *)
(* hand_size >= 1 and num_runs >= 1 reports min_score > 0 and               *)
(* mean_score > 0.  Checked under JokerLoopSpec, where the chips of a       *)
(* scored hand are followed through the joker loop.                         *)
C22_PositiveScores ==
    /\ (pc = "total_chips" /\ cards # <<>>) => joker_loop[1].total_chips[1] >= 7
    /\ (pc = "solved" /\ cards # <<>>) =>
          /\ solver_result[1].best_score # <<>>
          /\ solver_result[1].best_hand # <<>>
          /\ \A q \in 1..Len(results) :
                /\ results[q].score.chips >= 7
                /\ results[q].score.mult >= 1
                /\ results[q].score.score > 0
    /\ (pc = "simulated" /\ config[1].deck # <<>> /\ config[1].hand_size >= 1
           /\ config[1].num_runs >= 1) =>
          /\ LastResult.min_score > 0
          /\ LastResult.mean_score.num > 0

\* The ranks and the suit letters of a well-formed token, with what they name.
RankOfString ==
    [s \in {<<"2">>, <<"3">>, <<"4">>, <<"5">>, <<"6">>, <<"7">>, <<"8">>, <<"9">>,
            <<"1", "0">>, <<"J">>, <<"Q">>, <<"K">>, <<"A">>} |->
        CASE s = <<"2">> -> "Two" [] s = <<"3">> -> "Three" [] s = <<"4">> -> "Four"
          [] s = <<"5">> -> "Five" [] s = <<"6">> -> "Six" [] s = <<"7">> -> "Seven"
          [] s = <<"8">> -> "Eight" [] s = <<"9">> -> "Nine"
          [] s = <<"1", "0">> -> "Ten" [] s = <<"J">> -> "Jack"
          [] s = <<"Q">> -> "Queen" [] s = <<"K">> -> "King" [] s = <<"A">> -> "Ace"]

SuitOfLetter ==
    [l \in {"H", "D", "C", "S"} |->
        CASE l = "H" -> "Hearts" [] l = "D" -> "Diamonds"
          [] l = "C" -> "Clubs" [] l = "S" -> "Spades"]

\* s is a valid rank followed by a valid suit letter.
IsRankThenSuit(s, r, l) == s = r \o <<l>>

(* C23: parse_card returns a card for every token made of a valid rank      *)
(* (2-10, J, Q, K, A) followed by a valid suit letter (H, D, C, S), and     *)
(* returns an error value, never a crash, for every other token: tokens     *)
(* shorter than 2, "1H", "XX", "10" with no suit, and tokens whose suit is  *)
(* a multi-byte suit symbol.  Checked under ParseSpec.                      *)
C23_ParseCard ==
    parsed # <<>> =>
        IF \E r \in DOMAIN RankOfString, l \in DOMAIN SuitOfLetter :
               IsRankThenSuit(card_str, r, l)
        THEN \E r \in DOMAIN RankOfString, l \in DOMAIN SuitOfLetter :
                /\ IsRankThenSuit(card_str, r, l)
                /\ parsed[1] = Ok(Card_new(RankOfString[r], SuitOfLetter[l]))
        ELSE parsed[1].tag = "Err"


\* The tabs in the order of the cycle, and the tab one step after t in it.
TabOrder == <<"Solver", "Simulator", "Config">>

TabAfter(t) == TabOrder[((CHOOSE i \in 1..3 : TabOrder[i] = t) % 3) + 1]

\* The App as a value, and the App after the key codes of ks, pressed in
\* turn with no modifier, starting from the current one.
TheApp == [should_quit |-> should_quit, input |-> input, selected_tab |-> selected_tab]

RECURSIVE AfterKeys(_, _)
AfterKeys(app, ks) ==
    IF ks = <<>> THEN app
    ELSE AfterKeys(handle_event(app, [code |-> Head(ks), modifiers |-> {}]).app,
                   Tail(ks))

\* The code of the key event handled by the step.
HandledCode == event'[1].code

(* C24: the selected tab starts at Solver; each Tab key moves it one step    *)
(* along Solver -> Simulator -> Config -> Solver and each BackTab one step   *)
(* the other way; BackTab undoes Tab from every tab, and three Tabs lead     *)
(* back to the tab they started from.  Checked under AppSpec.                *)
C24_TabCycle ==
    /\ [](event = <<>> => selected_tab = "Solver")
    /\ [][/\ HandledCode = <<"Tab">> => selected_tab' = TabAfter(selected_tab)
          /\ HandledCode = <<"BackTab">> => selected_tab = TabAfter(selected_tab')]_vars
    /\ [](/\ AfterKeys(TheApp, <<<<"Tab">>, <<"BackTab">>>>).selected_tab = selected_tab
          /\ AfterKeys(TheApp, <<<<"Tab">>, <<"Tab">>, <<"Tab">>>>).selected_tab
                 = selected_tab)

\* A Tab has just led from Config back to Solver.
C24_Witness ==
    /\ event # <<>>
    /\ event[1].code = <<"Tab">>
    /\ selected_tab = "Solver"

\* The key events that quit: 'q', and 'c' with the Control modifier.
IsQuitKey(ev) ==
    \/ ev.code = <<"Char", "q">>
    \/ ev.code = <<"Char", "c">> /\ "CONTROL" \in ev.modifiers

(* C25: should_quit is false at first, becomes true exactly on a 'q' key or  *)
(* Ctrl+C, and once true stays true under every later key event;            *)
(* handle_event returns false exactly when should_quit is true after the     *)
(* event.  Checked under AppSpec.                                            *)
C25_Quit ==
    /\ [](event = <<>> => ~should_quit)
    /\ [][should_quit' <=> (should_quit \/ IsQuitKey(event'[1]))]_vars
    /\ [][should_quit => should_quit']_vars
    /\ [](should_continue # <<>> => (should_continue[1] <=> ~should_quit))

\* After the quit, a further key has been handled with text in the buffer.
C25_Witness ==
    /\ should_quit
    /\ event # <<>>
    /\ event[1].code = <<"Char", "a">>
    /\ input = <<"c", "a">>
    /\ should_continue = <<FALSE>>

(* C26: a character key other than 'q' and other than Ctrl+C appends that    *)
(* character to the input buffer, Backspace removes the last character      *)
(* (nothing on an empty buffer), Enter clears the buffer, and no other key   *)
(* changes it; the input-editing keys never change the selected tab, Tab    *)
(* and BackTab never change the buffer, and 'q' never appears in the        *)
(* buffer.  Checked under AppSpec.                                           *)
C26_InputBuffer ==
    /\ [][LET ev == event'[1]
              editing == \/ (ev.code[1] = "Char" /\ ~IsQuitKey(ev))
                         \/ ev.code \in {<<"Backspace">>, <<"Enter">>}
          IN  /\ (ev.code[1] = "Char" /\ ~IsQuitKey(ev)) =>
                     input' = input \o <<ev.code[2]>>
              /\ ev.code = <<"Backspace">> =>
                     /\ input = <<>> => input' = <<>>
                     /\ input # <<>> => input' \o <<input[Len(input)]>> = input
              /\ ev.code = <<"Enter">> => input' = <<>>
              /\ ~editing => input' = input
              /\ editing => selected_tab' = selected_tab
              /\ ev.code \in {<<"Tab">>, <<"BackTab">>} => input' = input]_vars
    /\ [](\A i \in 1..Len(input) : input[i] # "q")

\* Ctrl+A has been typed after a plain 'c', on another tab than the first.
C26_Witness ==
    /\ input = <<"c", "a">>
    /\ event # <<>>
    /\ event[1] = [code |-> <<"Char", "a">>, modifiers |-> {"CONTROL"}]
    /\ selected_tab = "Config"
    /\ ~should_quit

\* The pushed entry q is the pushed entry p with one more card of the list.
OneCardAdded(p, q) ==
    /\ Len(q.combo) = Len(p.combo) + 1
    /\ \A i \in 1..Len(p.combo) : \E j \in 1..Len(q.combo) : q.combo[j] = p.combo[i]

(* C27: for every card list of length n >= 1 and every joker list, absent   *)
(* saturation, best_hand has exactly min(5, n) cards: adding a card to a    *)
(* hand of fewer than 5 cards never lowers its hand type, base chips or     *)
(* mult and strictly raises its chips, so no smaller combination ties with  *)
(* or beats the best of the largest ones.  Checked under Spec.              *)
C27_LargestHandWins ==
    (pc = "solved" /\ cards # <<>>) =>
        /\ Len(solver_result[1].best_hand) = min(5, Len(cards))
        /\ \A p, q \in 1..Len(results) :
              OneCardAdded(results[p], results[q]) =>
                  /\ HandType_ord(results[q].score.hand_type)
                         >= HandType_ord(results[p].score.hand_type)
                  /\ results[q].score.breakdown.base_chips
                         >= results[p].score.breakdown.base_chips
                  /\ results[q].score.breakdown.base_mult
                         >= results[p].score.breakdown.base_mult
                  /\ results[q].score.mult >= results[p].score.mult
                  /\ results[q].score.chips > results[p].score.chips
        /\ \A p \in 1..Len(results) :
              Len(results[p].hand) < min(5, Len(cards)) =>
                  results[p].score.score < solver_result[1].best_score[1].score

\* Six cards under a joker: the best hand has five of them, and a hand of
\* four cards is already of the best hand's type.
C27_Witness ==
    /\ pc = "solved"
    /\ Len(cards) = 6
    /\ jokers # <<>>
    /\ Len(solver_result[1].best_hand) = 5
    /\ \E p \in 1..Len(results) :
          /\ Len(results[p].hand) = 4
          /\ results[p].score.hand_type = solver_result[1].best_score[1].hand_type

\* The index combinations of the returned entries.
ReturnedCombos == {ReturnedEntries[i].combo : i \in 1..Len(ReturnedEntries)}

(* C28: when N combinations were enumerated, alternatives has exactly       *)
(* min(3, N - 1) entries; the scores of the best hand followed by the       *)
(* alternatives never increase; the best hand and the alternatives are      *)
(* pairwise different index combinations; and every combination that is     *)
(* not returned scores no more than the last one returned.  Checked under   *)
(* Spec.                                                                    *)
C28_Alternatives ==
    (pc = "solved" /\ cards # <<>>) =>
        /\ Len(solver_result[1].alternatives) = min(3, Len(results) - 1)
        /\ \A i \in 1..(Len(ReturnedEntries) - 1) :
              ReturnedEntries[i].score.score >= ReturnedEntries[i + 1].score.score
        /\ \A i, j \in 1..Len(ReturnedEntries) :
              i # j => ReturnedEntries[i].combo # ReturnedEntries[j].combo
        /\ \A q \in 1..Len(results) :
              results[q].combo \notin ReturnedCombos =>
                  results[q].score.score
                      <= ReturnedEntries[Len(ReturnedEntries)].score.score

\* Two cards give three combinations: the pair is best and the two single
\* cards, of one score, are the alternatives.
C28_Witness ==
    /\ pc = "solved"
    /\ Len(results) = 3
    /\ Len(solver_result[1].alternatives) = 2
    /\ Len(solver_result[1].best_hand) = 2
    /\ solver_result[1].alternatives[1].score.score
           = solver_result[1].alternatives[2].score.score
    /\ solver_result[1].alternatives[1].combo # solver_result[1].alternatives[2].combo

\* h is cs with some of its cards left out.
RECURSIVE IsSubsequence(_, _)
IsSubsequence(h, cs) ==
    IF h = <<>> THEN TRUE
    ELSE IF cs = <<>> THEN FALSE
    ELSE IF Head(h) = Head(cs) THEN IsSubsequence(Tail(h), Tail(cs))
    ELSE IsSubsequence(h, Tail(cs))

(* C29: best_score is calculate of best_hand and each alternative's         *)
(* ScoreResult is calculate of its own hand; each ScoreResult's hand_type   *)
(* is evaluate of that hand; and every returned hand is a subsequence of    *)
(* the input cards, of 1 to 5 cards.  Checked under Spec.                   *)
C29_ReturnedScores ==
    (pc = "solved" /\ cards # <<>>) =>
        /\ solver_result[1].best_score = <<calculate(solver_result[1].best_hand, jokers)>>
        /\ \A a \in 1..Len(solver_result[1].alternatives) :
              solver_result[1].alternatives[a].score
                  = calculate(solver_result[1].alternatives[a].hand, jokers)
        /\ \A i \in 1..Len(ReturnedEntries) :
              /\ ReturnedEntries[i].score.hand_type = evaluate(ReturnedEntries[i].hand)
              /\ Len(ReturnedEntries[i].hand) \in 1..5
              /\ IsSubsequence(ReturnedEntries[i].hand, cards)

\* Under a joker, the best five of six cards leave out a card from the
\* front of the list, and an alternative is of another hand type.
C29_Witness ==
    /\ pc = "solved"
    /\ jokers # <<>>
    /\ Len(cards) = 6
    /\ Len(solver_result[1].alternatives) = 3
    /\ solver_result[1].best_hand # SubSeq(cards, 1, 5)
    /\ \E a \in 1..3 :
          solver_result[1].alternatives[a].score.hand_type
              # solver_result[1].best_score[1].hand_type

(* C30: every SimulationResult has min_score <= percentile_25 <=            *)
(* median_score <= percentile_75 <= percentile_95 <= max_score, so the      *)
(* unsigned subtractions max_score - min_score and percentile_75 -          *)
(* percentile_25 of the detailed report never underflow.  Checked under     *)
(* SimSpec.                                                                 *)
C30_OrderedStatistics ==
    /\ \A i \in 1..Len(sim_results) :
          /\ sim_results[i].min_score <= sim_results[i].percentile_25
          /\ sim_results[i].percentile_25 <= sim_results[i].median_score
          /\ sim_results[i].median_score <= sim_results[i].percentile_75
          /\ sim_results[i].percentile_75 <= sim_results[i].percentile_95
          /\ sim_results[i].percentile_95 <= sim_results[i].max_score
    /\ report # <<>> =>
          /\ ~report[1].range.overflow
          /\ ~report[1].iqr.overflow

\* A detailed report of scores that were pushed out of order, with both
\* differences above zero.
C30_Witness ==
    /\ pc = "simulated"
    /\ report = <<display_detailed(LastResult)>>
    /\ \E i \in 1..(Len(scores) - 1) : scores[i] > scores[i + 1]
    /\ report[1].iqr.value > 0
    /\ report[1].range.value >= report[1].iqr.value
    /\ LastResult.percentile_25 < LastResult.percentile_75
====
